---- MODULE Spec2Model ----
(***************************************************************************)
(* AgentWatch: the CloudWatch monitoring tools (src/tools), the credential *)
(* broker (src/tools/aws_helpers.py) and the request handler               *)
(* (src/ambient_agent.py), as state machines.                              *)
(*                                                                         *)
(*   Spec       one tool invocation at a time: broker, AWS calls, result   *)
(*   SpecAgent  the requests handled by agent_handler                      *)
(***************************************************************************)
EXTENDS Integers, Sequences, FiniteSets, TLC

(***************************************************************************)
(* Bounds of the model.                                                    *)
(***************************************************************************)
\* largest max_events a caller passes to fetch_cloudwatch_logs_for_service
MaxMaxEvents == 2
\* most log groups the account holds under the prefixes of one service
MaxUpstreamGroups == 3
\* most pages the describe_log_groups paginator yields for one prefix
MaxPages == 2
\* most events one log group holds in the time window
MaxGroupEvents == 2
\* most events filter_log_events returns to analyze_log_group
MaxWindow == 11
\* tool-call rounds the agent graph runs before its recursion limit is hit
RecursionLimit == 1
\* requests the process handles
MaxRequests == 2
\* most alarms in one describe_alarms answer
MaxAlarms == 2
\* largest limit a caller passes to list_log_groups
MaxLimit == 2

(***************************************************************************)
(* Python values.                                                          *)
(***************************************************************************)
\* the value None, and a key that a dict does not hold
None == "<None>"
Absent == "<absent>"

\* bool(x) of an optional string
Truthy(x) == x /= None /\ x /= Absent /\ x /= ""

Min(a, b) == IF a <= b THEN a ELSE b
Max(a, b) == IF a >= b THEN a ELSE b

\* seq[:n]
SliceTo(seq, n) ==
    IF n >= 0 THEN SubSeq(seq, 1, Min(n, Len(seq)))
    ELSE SubSeq(seq, 1, Max(Len(seq) + n, 0))

\* Text is held as a sequence of one-character strings where the code looks
\* inside it (str.lower, the `in` operator).
UpperCase ==
    <<"A", "B", "C", "D", "E", "F", "G", "H", "I", "J", "K", "L", "M",
      "N", "O", "P", "Q", "R", "S", "T", "U", "V", "W", "X", "Y", "Z">>
LowerCase ==
    <<"a", "b", "c", "d", "e", "f", "g", "h", "i", "j", "k", "l", "m",
      "n", "o", "p", "q", "r", "s", "t", "u", "v", "w", "x", "y", "z">>

\* one character of str.lower()
LowerChar(c) ==
    IF \E i \in 1..Len(UpperCase) : UpperCase[i] = c
    THEN LowerCase[CHOOSE i \in 1..Len(UpperCase) : UpperCase[i] = c]
    ELSE c

\* str.lower()
Lower(s) == [i \in 1..Len(s) |-> LowerChar(s[i])]

\* keyword in message
Contains(keyword, message) ==
    \E i \in 0..(Len(message) - Len(keyword)) :
        \A j \in 1..Len(keyword) : message[i + j] = keyword[j]

\* the str of a sequence of characters
RECURSIVE Join(_)
Join(s) == IF s = <<>> THEN "" ELSE Head(s) \o Join(Tail(s))

(***************************************************************************)
(* The AWS side: identities.                                               *)
(***************************************************************************)
\* the account the agent itself runs in
CallerAccount == "111111111111"

\* get_caller_identity under the agent's own credentials
AmbientIdentity ==
    [kind |-> "ambient", account |-> CallerAccount,
     arn |-> "arn:aws:iam::" \o CallerAccount \o ":role/AgentRuntimeRole"]

\* get_caller_identity under the credentials sts.assume_role(role_arn) returned
AssumedIdentity(account_id, role_name) ==
    [kind |-> "assumed", account |-> account_id,
     arn |-> "arn:aws:sts::" \o account_id \o ":assumed-role/" \o role_name
             \o "/MonitoringAgentSession"]

\* no client: the call that was to build one raised
NoClient == [service |-> "", identity |-> [kind |-> "none", account |-> "", arn |-> ""]]

\* role_arn = f"arn:aws:iam::{account_id}:role/{role_name}"
RoleArn(account_id, role_name) == "arn:aws:iam::" \o account_id \o ":role/" \o role_name

\* values a caller passes for account_id and for role_name
AccountIds == {None, "", "222222222222"}
RoleNames == {None, "", "MonitoringRole"}

\* messages of the failures the AWS side answers with
AssumeRoleError == "AccessDenied: not authorized to perform sts:AssumeRole"
ClientError == "UnknownServiceError: client could not be created"
ApiError == "ThrottlingException: Rate exceeded"

(***************************************************************************)
(* _get_cross_account_client(service, account_id, role_name): what the     *)
(* call does when STS answers assume_ok and boto3.client answers           *)
(* client_ok.  The result tells whether the call raised, the client it     *)
(* returned and the assume_role requests it sent.                          *)
(***************************************************************************)
\* the broker with a fallback to the caller's identity when the role
\* assumption fails
GetClientFallback(service, account_id, role_name, assume_ok, client_ok) ==
    IF Truthy(account_id) /\ Truthy(role_name) /\ assume_ok /\ client_ok
    THEN [raised |-> FALSE, error |-> "",
          client |-> [service |-> service,
                      identity |-> AssumedIdentity(account_id, role_name)],
          assumed |-> <<RoleArn(account_id, role_name)>>]
    ELSE [raised |-> FALSE, error |-> "",
          client |-> [service |-> service, identity |-> AmbientIdentity],
          assumed |-> IF Truthy(account_id) /\ Truthy(role_name)
                      THEN <<RoleArn(account_id, role_name)>> ELSE <<>>]

_get_cross_account_client(service, account_id, role_name, assume_ok, client_ok) ==
    IF Truthy(account_id) /\ Truthy(role_name)
    THEN IF ~assume_ok
         THEN [raised |-> TRUE, error |-> AssumeRoleError, client |-> NoClient,
               assumed |-> <<RoleArn(account_id, role_name)>>]
         ELSE IF ~client_ok
         THEN [raised |-> TRUE, error |-> ClientError, client |-> NoClient,
               assumed |-> <<RoleArn(account_id, role_name)>>]
         ELSE [raised |-> FALSE, error |-> "",
               client |-> [service |-> service,
                           identity |-> AssumedIdentity(account_id, role_name)],
               assumed |-> <<RoleArn(account_id, role_name)>>]
    ELSE IF ~client_ok
         THEN [raised |-> TRUE, error |-> ClientError, client |-> NoClient, assumed |-> <<>>]
         ELSE [raised |-> FALSE, error |-> "",
               client |-> [service |-> service, identity |-> AmbientIdentity],
               assumed |-> <<>>]

\* _format_account_context(account_id)
_format_account_context(account_id) ==
    IF Truthy(account_id) THEN "account " \o account_id ELSE "current account"

(***************************************************************************)
(* The tool catalog (src/tools/cloudwatch_tools.py).                       *)
(***************************************************************************)
ToolNames ==
    {"list_cloudwatch_dashboards", "get_dashboard_summary", "list_log_groups",
     "fetch_cloudwatch_logs_for_service", "analyze_log_group",
     "get_cloudwatch_alarms_for_service", "setup_cross_account_access"}

\* the service each tool asks the broker a client for
ToolService(tool) ==
    CASE tool \in {"list_cloudwatch_dashboards", "get_dashboard_summary",
                   "get_cloudwatch_alarms_for_service"} -> "cloudwatch"
      [] tool \in {"list_log_groups", "fetch_cloudwatch_logs_for_service",
                   "analyze_log_group"} -> "logs"
      [] tool = "setup_cross_account_access" -> "sts"

\* the first AWS operation each tool calls on its client
ToolApi(tool) ==
    CASE tool = "list_cloudwatch_dashboards" -> "list_dashboards"
      [] tool = "get_dashboard_summary" -> "get_dashboard"
      [] tool = "list_log_groups" -> "describe_log_groups"
      [] tool = "fetch_cloudwatch_logs_for_service" -> "describe_log_groups"
      [] tool = "analyze_log_group" -> "filter_log_events"
      [] tool = "get_cloudwatch_alarms_for_service" -> "describe_alarms"
      [] tool = "setup_cross_account_access" -> "get_caller_identity"

\* the text each tool's `except Exception as e` puts before str(e)
ToolErrorPrefix(c) ==
    CASE c.tool = "list_cloudwatch_dashboards" -> "Error listing CloudWatch dashboards: "
      [] c.tool = "get_dashboard_summary" ->
            "Error getting dashboard summary for '" \o c.name \o "': "
      [] c.tool = "list_log_groups" -> "Error listing log groups: "
      [] c.tool = "fetch_cloudwatch_logs_for_service" ->
            "Error fetching logs for service '" \o Join(c.service_name) \o "': "
      [] c.tool = "analyze_log_group" ->
            "Error analyzing log group '" \o c.name \o "': "
      [] c.tool = "get_cloudwatch_alarms_for_service" ->
            "Error getting CloudWatch alarms for service '" \o Join(c.service_name) \o "': "
      [] c.tool = "setup_cross_account_access" -> "L Failed to setup cross-account access: "

\* the tools whose body after the broker call is one AWS request
SimpleTools ==
    {"list_cloudwatch_dashboards", "get_dashboard_summary", "setup_cross_account_access"}

\* a tool without its except clause: the exception leaves the tool
ErrorResultRaises(c, e) == [kind |-> "raised", text |-> e]

\* the value a tool returns from its except clause
ErrorResult(c, e) == [kind |-> "error", text |-> ToolErrorPrefix(c) \o e]

NoResult == [kind |-> "none", text |-> ""]

(***************************************************************************)
(* SERVICE_LOG_GROUPS and the service names callers pass.                  *)
(***************************************************************************)
SERVICE_LOG_GROUPS ==
    [k \in {"lambda", "ec2", "rds", "eks", "apigateway", "bedrock", "vpc", "iam",
            "s3", "cloudtrail", "waf"} |->
        IF k = "ec2" THEN <<"/aws/ec2/", "/var/log/">> ELSE <<"/aws/" \o k \o "/">>]

ServiceNames ==
    {<<"l", "a", "m", "b", "d", "a">>, <<"e", "c", "2">>, <<"E", "C", "2">>,
     <<"S", "q", "s">>}

\* the lookup with the service name as the caller wrote it
LogGroupPrefixesAsWritten(service_name) ==
    IF Join(service_name) \in DOMAIN SERVICE_LOG_GROUPS
    THEN SERVICE_LOG_GROUPS[Join(service_name)]
    ELSE <<"/aws/" \o Join(service_name) \o "/">>

\* SERVICE_LOG_GROUPS.get(service_name.lower(), [f"/aws/{service_name}/"])
LogGroupPrefixes(service_name) ==
    IF Join(Lower(service_name)) \in DOMAIN SERVICE_LOG_GROUPS
    THEN SERVICE_LOG_GROUPS[Join(Lower(service_name))]
    ELSE <<"/aws/" \o Join(service_name) \o "/">>

(***************************************************************************)
(* State of the tool layer.                                                *)
(***************************************************************************)
VARIABLES
    pc,                 \* where the running tool is; "idle" between calls
    call,               \* the arguments of the running tool call
    client,             \* the client the broker returned to the tool
    sts_calls,          \* the role ARNs the broker asked STS to assume
    request,            \* the request sent through `client` most recently
    result,             \* the value the tool returned
    aws_response,           \* what the broker or the request answered most recently
    log_group_prefixes, \* fetch: the prefixes resolved for the service
    prefix_i,           \* fetch: index of the prefix being read
    page,               \* fetch: page["logGroups"] of the current page
    page_no,            \* fetch: number of the current page of the prefix
    more_pages,         \* fetch: whether the paginator has a page after this one
    groups_left,        \* fetch: how many more log groups the account can list
    group_i,            \* fetch: index of the next log group of the page
    all_logs,           \* fetch: the events collected so far
    log_groups,         \* list: the log group names collected so far
    log_events,         \* analyze: how often each message was in the events read
    pending,            \* analyze: how many events the loop has not reached yet
    total_events,       \* analyze: len(log_events)
    error_count,        \* analyze
    warning_count       \* analyze

fetch_vars ==
    <<log_group_prefixes, prefix_i, page, page_no, more_pages, groups_left, group_i,
      all_logs>>
analyze_vars == <<log_events, pending, total_events, error_count, warning_count>>
tool_vars ==
    <<pc, call, client, sts_calls, request, result, aws_response, fetch_vars, log_groups,
      analyze_vars>>

(***************************************************************************)
(* State of the request handler (src/ambient_agent.py).                    *)
(***************************************************************************)
VARIABLES
    monitoring_agent,      \* the module global: NoAgent, or the agent built on
                           \* the checkpointer of that number
    _initialized,          \* the module global
    _config_data,          \* the module global
    _agent_system_prompt,  \* the module global
    checkpointers,         \* how many MemorySaver objects were created
    storage,               \* per checkpointer and thread id: the saved turns
    req                    \* per request: where agent_handler is, and its locals

agent_vars ==
    <<monitoring_agent, _initialized, _config_data, _agent_system_prompt,
      checkpointers, storage, req>>

(***************************************************************************)
(* State of the region resolution (src/tools/aws_helpers.py).              *)
(***************************************************************************)
VARIABLES
    environ,         \* os.environ: AWS_DEFAULT_REGION and AWS_REGION
    session_region,  \* what boto3.session.Session().region_name gives
    region_arg,      \* the region argument of the latest broker call
    built_clients    \* the boto3.client(...) constructions of the latest broker call

region_vars == <<environ, session_region, region_arg, built_clients>>

(***************************************************************************)
(* What the tool call before the running one was and returned, where       *)
(* successive calls are compared.                                          *)
(***************************************************************************)
VARIABLES previous_call

(***************************************************************************)
(* State of one run of the scheduled trigger                               *)
(* (src/lambda/scheduled_monitor.py).                                      *)
(***************************************************************************)
VARIABLES
    lambda_pc,       \* where lambda_handler is; "returned" after its return
    lambda_environ,  \* os.environ of the run
    bearer_token,    \* the token the run obtained, None before
    lambda_sent,     \* the network requests the run sent, in order
    agent_response,  \* len(agent_response), 0 before the agent answered
    lambda_e,        \* e of `except Exception as e`: its kind and len(str(e))
    lambda_return    \* the statusCode lambda_handler returned, 0 before

lambda_vars ==
    <<lambda_pc, lambda_environ, bearer_token, lambda_sent, agent_response, lambda_e,
      lambda_return>>

\* the variables the steps of a tool leave alone, those the steps of the
\* request handler leave alone, those the region resolution leaves alone and
\* those the scheduled trigger leaves alone
outside_tools == <<agent_vars, region_vars, previous_call, lambda_vars>>
outside_agent == <<tool_vars, region_vars, previous_call, lambda_vars>>
outside_region == <<tool_vars, agent_vars, previous_call, lambda_vars>>
outside_lambda == <<tool_vars, agent_vars, region_vars, previous_call>>

vars == <<tool_vars, agent_vars, region_vars, previous_call, lambda_vars>>

\* no request was sent
NoRequest == [api |-> "", identity |-> "", target |-> "", collected |-> 0]

\* what the broker or an AWS operation answered: the str of the exception it
\* raised ("" when it returned), and the events a filter_log_events answer holds
NoResponse == [raised |-> "", events |-> 0]
Raises(e) == [raised |-> e, events |-> 0]
Events(n) == [raised |-> "", events |-> n]
MetricAlarms(alarms) == [raised |-> "", events |-> 0, alarms |-> alarms]

NoCall ==
    [tool |-> "", account_id |-> None, role_name |-> None, service_name |-> <<>>,
     max_events |-> 0, limit |-> 0, hours |-> 1, name |-> ""]

\* the service names get_cloudwatch_alarms_for_service is asked about
AlarmServiceNames == {<<"E", "C", "2">>}

\* no call came before
NoPrevious == [call |-> NoCall, result |-> NoResult]

\* the calls the reasoning policy can make
\* the calls the reasoning policy can make, with hours at its default
Calls ==
    { [tool |-> t, account_id |-> a, role_name |-> r, service_name |-> <<>>,
       max_events |-> 0, limit |-> 0, hours |-> 1, name |-> IF t = "get_dashboard_summary" THEN "main" ELSE ""] :
        t \in SimpleTools \ {"setup_cross_account_access"},
        a \in AccountIds, r \in RoleNames }
    \cup
    \* account_id: str and role_name: str are required: None is not accepted
    { [tool |-> "setup_cross_account_access", account_id |-> a, role_name |-> r,
       service_name |-> <<>>, max_events |-> 0, limit |-> 0, hours |-> 1, name |-> ""] :
        a \in AccountIds \ {None}, r \in RoleNames \ {None} }
    \cup
    { [tool |-> "get_cloudwatch_alarms_for_service", account_id |-> a, role_name |-> r,
       service_name |-> s, max_events |-> 0, limit |-> 0, hours |-> 1, name |-> ""] :
        a \in AccountIds, r \in RoleNames, s \in AlarmServiceNames }
    \cup
    { [tool |-> "list_log_groups", account_id |-> a, role_name |-> r,
       service_name |-> <<>>, max_events |-> 0, limit |-> n, hours |-> 1, name |-> ""] :
        a \in AccountIds, r \in RoleNames, n \in 0..MaxLimit }
    \cup
    { [tool |-> "analyze_log_group", account_id |-> a, role_name |-> r,
       service_name |-> <<>>, max_events |-> 0, limit |-> 0, hours |-> 1, name |-> "/aws/lambda/fn"] :
        a \in AccountIds, r \in RoleNames }
    \cup
    { [tool |-> "fetch_cloudwatch_logs_for_service", account_id |-> a, role_name |-> r,
       service_name |-> s, max_events |-> n, limit |-> 0, hours |-> 1, name |-> ""] :
        a \in AccountIds, r \in RoleNames, s \in ServiceNames, n \in 1..MaxMaxEvents }

\* calls of the two log tools with any time window and any cap, in the
\* current account
QueryCalls ==
    { [tool |-> "analyze_log_group", account_id |-> None, role_name |-> None,
       service_name |-> <<>>, max_events |-> 0, limit |-> 0, hours |-> h,
       name |-> "/aws/lambda/fn"] : h \in {-1, 0, 1} }
    \cup
    { [tool |-> "fetch_cloudwatch_logs_for_service", account_id |-> None,
       role_name |-> None, service_name |-> <<"e", "c", "2">>, max_events |-> n,
       limit |-> 0, hours |-> h, name |-> ""] :
        n \in {-1, 0, 1}, h \in {-1, 0, 1} }

ToolInit ==
    /\ pc = "idle"
    /\ call = NoCall
    /\ client = NoClient
    /\ sts_calls = <<>>
    /\ request = NoRequest
    /\ result = NoResult
    /\ aws_response = NoResponse
    /\ log_group_prefixes = <<>>
    /\ prefix_i = 0
    /\ page = <<>>
    /\ page_no = 0
    /\ more_pages = FALSE
    /\ groups_left = 0
    /\ group_i = 0
    /\ all_logs = <<>>
    /\ log_groups = <<>>
    /\ log_events = <<>>
    /\ pending = 0
    /\ total_events = 0
    /\ error_count = 0
    /\ warning_count = 0

\* one request sent through the client: the operation, the identity it runs
\* under, what it is about, and the number of events collected when it is sent
Request(api, target) ==
    [api |-> api, identity |-> client.identity.kind, target |-> target,
     collected |-> Len(all_logs)]

(***************************************************************************)
(* A tool is called.  The tools keep nothing from one call to the next, so *)
(* one call is followed from its start to its return value.                *)
(***************************************************************************)
ToolCall ==
    /\ pc = "idle"
    /\ \E c \in Calls : call' = c
    /\ pc' = "client"
    /\ client' = NoClient
    /\ sts_calls' = <<>>
    /\ request' = NoRequest
    /\ result' = NoResult
    /\ aws_response' = NoResponse
    /\ log_group_prefixes' = <<>>
    /\ prefix_i' = 0
    /\ page' = <<>>
    /\ page_no' = 0
    /\ more_pages' = FALSE
    /\ groups_left' = MaxUpstreamGroups
    /\ group_i' = 0
    /\ all_logs' = <<>>
    /\ log_groups' = <<>>
    /\ log_events' = <<>>
    /\ pending' = 0
    /\ total_events' = 0
    /\ error_count' = 0
    /\ warning_count' = 0
    /\ UNCHANGED outside_tools

(***************************************************************************)
(* The first statement of every tool:                                      *)
(*   client = _get_cross_account_client(service, account_id, role_name)    *)
(* A raise goes to the tool's except clause, which returns the error text. *)
(***************************************************************************)
ToolGetClient ==
    /\ pc = "client"
    /\ \E assume_ok \in BOOLEAN, client_ok \in BOOLEAN :
        LET got == _get_cross_account_client(ToolService(call.tool), call.account_id,
                                             call.role_name, assume_ok, client_ok)
        IN  /\ sts_calls' = got.assumed
            /\ client' = got.client
            /\ aws_response' = Raises(got.error)
            /\ IF got.raised
               THEN /\ pc' = "done"
                    /\ result' = ErrorResult(call, got.error)
                    /\ UNCHANGED log_group_prefixes
               ELSE /\ result' = result
                    /\ pc' = CASE call.tool \in SimpleTools -> "api"
                                [] call.tool = "fetch_cloudwatch_logs_for_service" -> "fetch_prefix"
                                [] call.tool = "analyze_log_group" -> "analyze_filter"
                                [] call.tool = "list_log_groups" -> "list_page"
                                [] call.tool = "get_cloudwatch_alarms_for_service" ->
                                      "alarms_describe"
                    /\ log_group_prefixes' =
                          IF call.tool = "fetch_cloudwatch_logs_for_service"
                          THEN LogGroupPrefixes(call.service_name) ELSE <<>>
    /\ prefix_i' = 1
    /\ UNCHANGED <<call, request, page, page_no, more_pages, groups_left, group_i,
                   all_logs, analyze_vars>>
    /\ UNCHANGED log_groups
    /\ UNCHANGED outside_tools

(***************************************************************************)
(* The tools that send one request and format its answer.                  *)
(***************************************************************************)
\* a verification whose role session is named after the number of the call,
\* so that a call after another reports another ARN
SimpleResultNumbered(c, identity) ==
    IF c.tool = "setup_cross_account_access"
    THEN [kind |-> "text", text |-> "Cross-account access verified successfully!",
          target_account |-> c.account_id, role_name |-> c.role_name,
          assumed_account |-> identity.account,
          assumed_arn |-> IF previous_call = NoPrevious THEN identity.arn
                          ELSE identity.arn \o "-2"]
    ELSE [kind |-> "text", text |-> ToolApi(c.tool) \o " of " \o _format_account_context(c.account_id)]

\* what the tool returns when the request succeeded
SimpleResult(c, identity) ==
    IF c.tool = "setup_cross_account_access"
    THEN [kind |-> "text", text |-> "Cross-account access verified successfully!",
          target_account |-> c.account_id, role_name |-> c.role_name,
          assumed_account |-> identity.account, assumed_arn |-> identity.arn]
    ELSE [kind |-> "text", text |-> ToolApi(c.tool) \o " of " \o _format_account_context(c.account_id)]

ToolRequest ==
    /\ pc = "api"
    /\ request' = Request(ToolApi(call.tool), call.name)
    /\ \/ /\ aws_response' = NoResponse
          /\ result' = SimpleResult(call, client.identity)
       \/ /\ aws_response' = Raises(ApiError)
          /\ result' = ErrorResult(call, ApiError)
    /\ pc' = "done"
    /\ UNCHANGED <<call, client, sts_calls, fetch_vars, analyze_vars>>
    /\ UNCHANGED log_groups
    /\ UNCHANGED outside_tools

\* setup_cross_account_access is called, at the start or when the call before
\* it has returned; what that call was and returned is kept for comparison
SetupCall ==
    /\ pc \in {"idle", "done"}
    /\ previous_call' = IF pc = "done" THEN [call |-> call, result |-> result]
                        ELSE NoPrevious
    /\ \E c \in Calls :
          /\ c.tool = "setup_cross_account_access"
          /\ call' = c
    /\ pc' = "client"
    /\ client' = NoClient
    /\ sts_calls' = <<>>
    /\ request' = NoRequest
    /\ result' = NoResult
    /\ aws_response' = NoResponse
    /\ log_group_prefixes' = <<>>
    /\ prefix_i' = 0
    /\ page' = <<>>
    /\ page_no' = 0
    /\ more_pages' = FALSE
    /\ groups_left' = MaxUpstreamGroups
    /\ group_i' = 0
    /\ all_logs' = <<>>
    /\ log_groups' = <<>>
    /\ log_events' = <<>>
    /\ pending' = 0
    /\ total_events' = 0
    /\ error_count' = 0
    /\ warning_count' = 0
    /\ UNCHANGED <<agent_vars, region_vars, lambda_vars>>

\* fetch_cloudwatch_logs_for_service or analyze_log_group is called with some
\* time window and some cap
QueryCall ==
    /\ pc = "idle"
    /\ \E c \in QueryCalls : call' = c
    /\ pc' = "client"
    /\ client' = NoClient
    /\ sts_calls' = <<>>
    /\ request' = NoRequest
    /\ result' = NoResult
    /\ aws_response' = NoResponse
    /\ log_group_prefixes' = <<>>
    /\ prefix_i' = 0
    /\ page' = <<>>
    /\ page_no' = 0
    /\ more_pages' = FALSE
    /\ groups_left' = MaxUpstreamGroups
    /\ group_i' = 0
    /\ all_logs' = <<>>
    /\ log_groups' = <<>>
    /\ log_events' = <<>>
    /\ pending' = 0
    /\ total_events' = 0
    /\ error_count' = 0
    /\ warning_count' = 0
    /\ UNCHANGED outside_tools

\* successive calls of setup_cross_account_access
SetupNext == SetupCall \/ ToolGetClient \/ ToolRequest

(***************************************************************************)
(* list_log_groups: the loop over the pages of describe_log_groups.        *)
(***************************************************************************)
\* the name of the j-th log group of page k under a prefix
GroupName(prefix, k, j) == prefix \o "group-" \o ToString(k) \o "-" \o ToString(j)

\* for log_group in page["logGroups"]: log_groups.append(...);
\*     if len(log_groups) >= limit: break
\* from the k-th name of the page
RECURSIVE AppendGroups(_, _, _, _)
AppendGroups(groups, names, k, limit) ==
    IF k > Len(names) THEN groups
    ELSE LET appended == Append(groups, names[k])
         IN  IF Len(appended) >= limit THEN appended
             ELSE AppendGroups(appended, names, k + 1, limit)

\* the text the tool builds from log_groups: "No log groups found", or the
\* header line with len(log_groups) and one line for each name
ListResult(c, groups) ==
    IF groups = <<>>
    THEN [kind |-> "text", text |-> "No log groups found", found |-> 0, names |-> <<>>]
    ELSE [kind |-> "text", text |-> "Found log group(s)", found |-> Len(groups),
          names |-> groups]

\* for page in paginator.paginate(): the paginator requests the next page; a
\* raise goes to the tool's except clause.  The names of the page are
\* appended up to the limit, and
\*     if len(log_groups) >= limit: break
\* or the end of the pages leaves the loop: the tool returns its text.
ListPage ==
    /\ pc = "list_page"
    /\ request' = [api |-> "describe_log_groups", identity |-> client.identity.kind,
                   target |-> "", collected |-> Len(log_groups)]
    /\ \/ /\ aws_response' = Raises(ApiError)
          /\ result' = ErrorResult(call, ApiError)
          /\ pc' = "done"
          /\ UNCHANGED <<page, page_no, more_pages, groups_left, log_groups>>
       \/ \E n \in 0..groups_left, more \in BOOLEAN :
             LET names == [j \in 1..n |-> GroupName("/aws/", page_no + 1, j)]
                 groups == AppendGroups(log_groups, names, 1, call.limit)
             IN  /\ more => page_no + 1 < MaxPages
                 /\ aws_response' = NoResponse
                 /\ groups_left' = groups_left - n
                 /\ page' = names
                 /\ page_no' = page_no + 1
                 /\ more_pages' = more
                 /\ log_groups' = groups
                 /\ IF Len(groups) >= call.limit \/ ~more
                    THEN /\ result' = ListResult(call, groups)
                         /\ pc' = "done"
                    ELSE /\ result' = result
                         /\ pc' = "list_page"
    /\ UNCHANGED <<call, client, sts_calls, log_group_prefixes, prefix_i, group_i,
                   all_logs, analyze_vars>>
    /\ UNCHANGED outside_tools

(***************************************************************************)
(* fetch_cloudwatch_logs_for_service: the loops over prefixes, pages of    *)
(* log groups, log groups and events.                                      *)
(***************************************************************************)
\* the events a filter_log_events answer holds: n events in the order of
\* their timestamps, the first of them at time `first`
LogEvents(n, first) == [k \in 1..n |-> [event |-> k, timestamp |-> first + k - 1]]

\* the times the first event of an answer can have: a group listed later can
\* hold the older events
FirstTimestamps == {100, 200}

\* for event in events.get("events", []): all_logs.append({"timestamp": ...,
\*     "log_group": ..., "message": ...});
\*     if len(all_logs) >= max_events: break
\* from the k-th of the events the request returned
RECURSIVE AppendEvents(_, _, _, _, _)
AppendEvents(logs, log_group, events, k, max_events) ==
    IF k > Len(events) THEN logs
    ELSE LET appended == Append(logs, [log_group |-> log_group,
                                       event |-> events[k].event,
                                       timestamp |-> events[k].timestamp])
         IN  IF Len(appended) >= max_events THEN appended
             ELSE AppendEvents(appended, log_group, events, k + 1, max_events)

\* the text the tool builds from all_logs without the [:max_events] slice
FetchResultUnsliced(c, logs) ==
    IF logs = <<>>
    THEN [kind |-> "text", text |-> "No logs found for service", retrieved |-> 0,
          entries |-> <<>>]
    ELSE [kind |-> "text", text |-> "Retrieved log entries for service",
          retrieved |-> Len(logs), entries |-> logs]

\* the text built from the entries put in the order of their timestamps
FetchResultByTime(c, logs) ==
    LET Older(a, b) == a.timestamp < b.timestamp
    IN  IF logs = <<>>
        THEN [kind |-> "text", text |-> "No logs found for service", retrieved |-> 0,
              entries |-> <<>>]
        ELSE [kind |-> "text", text |-> "Retrieved log entries for service",
              retrieved |-> Len(logs),
              entries |-> SliceTo(SortSeq(logs, Older), c.max_events)]

\* the text the tool builds from all_logs: the header line with len(all_logs)
\* and one entry for each of all_logs[:max_events]
FetchResult(c, logs) ==
    IF logs = <<>>
    THEN [kind |-> "text", text |-> "No logs found for service", retrieved |-> 0,
          entries |-> <<>>]
    ELSE [kind |-> "text", text |-> "Retrieved log entries for service",
          retrieved |-> Len(logs), entries |-> SliceTo(logs, c.max_events)]

\* for prefix in log_group_prefixes: the next prefix, or the end of the loop
FetchPrefix ==
    /\ pc = "fetch_prefix"
    /\ IF prefix_i > Len(log_group_prefixes)
       THEN pc' = "fetch_format"
       ELSE pc' = "fetch_describe"
    /\ page' = <<>>
    /\ page_no' = 0
    /\ more_pages' = FALSE
    /\ group_i' = 0
    /\ UNCHANGED <<call, client, sts_calls, request, result, aws_response,
                   log_group_prefixes, prefix_i, groups_left, all_logs, analyze_vars>>
    /\ UNCHANGED log_groups
    /\ UNCHANGED outside_tools

\* for page in paginator.paginate(logGroupNamePrefix=prefix): the paginator
\* requests the next page.  A raise is caught as group_error: continue with
\* the next prefix.
FetchDescribe ==
    /\ pc = "fetch_describe"
    /\ request' = Request("describe_log_groups", log_group_prefixes[prefix_i])
    /\ \/ /\ aws_response' = Raises(ApiError)
          /\ pc' = "fetch_prefix"
          /\ prefix_i' = prefix_i + 1
          /\ UNCHANGED <<page, page_no, more_pages, groups_left, group_i>>
       \/ \E n \in 0..groups_left, more \in BOOLEAN :
             /\ more => page_no + 1 < MaxPages
             /\ aws_response' = NoResponse
             /\ groups_left' = groups_left - n
             /\ page' = [j \in 1..n |->
                           GroupName(log_group_prefixes[prefix_i], page_no + 1, j)]
             /\ page_no' = page_no + 1
             /\ more_pages' = more
             /\ group_i' = 1
             /\ pc' = "fetch_group"
             /\ UNCHANGED prefix_i
    /\ UNCHANGED <<call, client, sts_calls, result, log_group_prefixes, all_logs,
                   analyze_vars>>
    /\ UNCHANGED log_groups
    /\ UNCHANGED outside_tools

\* the loop over groups without `except Exception as log_error`: a failing
\* filter_log_events goes to the tool's own except clause
FetchFilterAborts ==
    /\ pc = "fetch_group"
    /\ group_i <= Len(page)
    /\ request' = Request("filter_log_events", page[group_i])
    /\ \/ /\ aws_response' = Raises(ApiError)
          /\ result' = ErrorResult(call, ApiError)
          /\ pc' = "done"
          /\ UNCHANGED <<all_logs, group_i, prefix_i>>
       \/ \E n \in 0..Min(call.max_events, MaxGroupEvents),
             first \in FirstTimestamps :
             LET logs == AppendEvents(all_logs, page[group_i], LogEvents(n, first), 1,
                                      call.max_events)
             IN  /\ call.max_events >= 1
                 /\ n = 0 => first = 100
                 /\ aws_response' = Events(n)
                 /\ all_logs' = logs
                 /\ result' = result
                 /\ IF Len(logs) >= call.max_events
                    THEN /\ pc' = "fetch_prefix"
                         /\ prefix_i' = prefix_i + 1
                         /\ UNCHANGED group_i
                    ELSE /\ group_i' = group_i + 1
                         /\ UNCHANGED <<pc, prefix_i>>
    /\ UNCHANGED <<call, client, sts_calls, log_group_prefixes, page, page_no,
                   more_pages, groups_left, analyze_vars>>
    /\ UNCHANGED log_groups
    /\ UNCHANGED outside_tools

\* for log_group in page["logGroups"]: filter_log_events(limit=max_events) on
\* the next group.  A raise is caught as log_error: continue with the next
\* group; the call raises whenever limit is below 1, the least value the
\* operation takes.  Otherwise the events are appended up to the cap, and
\*     if len(all_logs) >= max_events: break     (the loop over groups)
\*     if len(all_logs) >= max_events: break     (the loop over pages)
\* leave for the next prefix.
FetchFilter ==
    /\ pc = "fetch_group"
    /\ group_i <= Len(page)
    /\ request' = Request("filter_log_events", page[group_i])
    /\ \/ /\ aws_response' = Raises(ApiError)
          /\ group_i' = group_i + 1
          /\ UNCHANGED <<all_logs, pc, prefix_i>>
       \/ \E n \in 0..Min(call.max_events, MaxGroupEvents),
             first \in FirstTimestamps :
             LET logs == AppendEvents(all_logs, page[group_i], LogEvents(n, first), 1,
                                      call.max_events)
             IN  /\ call.max_events >= 1
                 /\ n = 0 => first = 100
                 /\ aws_response' = Events(n)
                 /\ all_logs' = logs
                 /\ IF Len(logs) >= call.max_events
                    THEN /\ pc' = "fetch_prefix"
                         /\ prefix_i' = prefix_i + 1
                         /\ UNCHANGED group_i
                    ELSE /\ group_i' = group_i + 1
                         /\ UNCHANGED <<pc, prefix_i>>
    /\ UNCHANGED <<call, client, sts_calls, result, log_group_prefixes, page, page_no,
                   more_pages, groups_left, analyze_vars>>
    /\ UNCHANGED log_groups
    /\ UNCHANGED outside_tools

\* the groups of the page are exhausted:
\*     if len(all_logs) >= max_events: break     (the loop over pages)
\* else the paginator goes for its next page, if it has one
FetchPageEnd ==
    /\ pc = "fetch_group"
    /\ group_i > Len(page)
    /\ IF Len(all_logs) < call.max_events /\ more_pages
       THEN /\ pc' = "fetch_describe"
            /\ UNCHANGED prefix_i
       ELSE /\ pc' = "fetch_prefix"
            /\ prefix_i' = prefix_i + 1
    /\ UNCHANGED <<call, client, sts_calls, request, result, aws_response,
                   log_group_prefixes, page, page_no, more_pages, groups_left, group_i,
                   all_logs, analyze_vars>>
    /\ UNCHANGED log_groups
    /\ UNCHANGED outside_tools

\* after the loops: the "No logs found" text or the header and the entries
FetchFormat ==
    /\ pc = "fetch_format"
    /\ result' = FetchResult(call, all_logs)
    /\ pc' = "done"
    /\ UNCHANGED <<call, client, sts_calls, request, aws_response, fetch_vars, analyze_vars>>
    /\ UNCHANGED log_groups
    /\ UNCHANGED outside_tools

(***************************************************************************)
(* analyze_log_group: the keyword scan and the verdict.                    *)
(***************************************************************************)
error_keywords ==
    {<<"e", "r", "r", "o", "r">>, <<"f", "a", "i", "l">>,
     <<"e", "x", "c", "e", "p", "t", "i", "o", "n">>,
     <<"c", "r", "i", "t", "i", "c", "a", "l">>}
warning_keywords == {<<"w", "a", "r", "n", "i", "n", "g">>, <<"w", "a", "r", "n">>}

\* the messages a log group holds
Messages ==
    <<  <<"E", "R", "R", "O", "R", " ", "5", "0", "0">>,
        <<"W", "a", "r", "n", ":", " ", "j", "o", "b", " ", "F", "a", "i", "l", "e", "d">>,
        <<"W", "A", "R", "N", "I", "N", "G", " ", "s", "l", "o", "w">>,
        <<"r", "e", "q", "u", "e", "s", "t", " ", "o", "k">>  >>

\* any(keyword in message_lower for keyword in keywords)
AnyKeyword(keywords, message_lower) ==
    \E keyword \in keywords : Contains(keyword, message_lower)

\* message_lower = event["message"].lower() and the two keyword tests, for
\* each message
IsError == [m \in 1..Len(Messages) |-> AnyKeyword(error_keywords, Lower(Messages[m]))]
IsWarning == [m \in 1..Len(Messages) |-> AnyKeyword(warning_keywords, Lower(Messages[m]))]

\* the body of `for event in log_events` with both tests run on every
\* message (`if` in place of `elif`)
ScanBothTests(counts, m) ==
    [error_count |-> counts.error_count + (IF IsError[m] THEN 1 ELSE 0),
     warning_count |-> counts.warning_count + (IF IsWarning[m] THEN 1 ELSE 0)]

\* the body of `for event in log_events`, on message m: the counts after it
ScanMessage(counts, m) ==
    IF IsError[m]
    THEN [counts EXCEPT !.error_count = @ + 1]
    ELSE IF IsWarning[m]
    THEN [counts EXCEPT !.warning_count = @ + 1]
    ELSE counts

Critical == "[!]  High error rate detected! Investigate immediately."
Elevated == "[!]  Elevated warning count. Review may be needed."
Healthy == "Log group appears healthy."

\* the verdict with the warning test `>=` in place of `>`
VerdictAtLeast(errors, warnings, total) ==
    IF errors > 0 THEN Critical
    ELSE IF 10 * warnings >= total THEN Elevated
    ELSE Healthy

\* if error_count > 0 ... elif warning_count > total_events * 0.1 ... else ...
\* total_events * 0.1 is a float product: for the totals of a window (at most
\* 1000) it is total/10 or the next float above it, and the integer
\* warning_count exceeds it exactly when 10 * warning_count > total_events.
Verdict(errors, warnings, total) ==
    IF errors > 0 THEN Critical
    ELSE IF 10 * warnings > total THEN Elevated
    ELSE Healthy

\* the rate with the digits after the first decimal cut off
RateTenthsTruncated(count, total) == (1000 * count) \div total

\* f"{count / total * 100:.1f}", in tenths of a per cent: the tenth nearest to
\* the quotient.  The quotient is half-way between two tenths only when total
\* is a multiple of 16, which no window of the model is.
RateTenths(count, total) ==
    LET q == (1000 * count) \div total
        rest == (1000 * count) % total
    IN  IF 2 * rest > total \/ (2 * rest = total /\ q % 2 = 1) THEN q + 1 ELSE q

\* the digits of a number of tenths, as :.1f writes them
OneDecimal(tenths) == ToString(tenths \div 10) \o "." \o ToString(tenths % 10)

\* error_rate, warning_rate, the summary lines and the verdict line
AnalysisResult(c, total, errors, warnings) ==
    [kind |-> "text", text |-> "Log Group Analysis",
     total_events |-> total, error_count |-> errors, warning_count |-> warnings,
     total_line |-> "  Total Events: " \o ToString(total),
     errors_line |-> "  Errors: " \o ToString(errors) \o " ("
                     \o OneDecimal(RateTenths(errors, total)) \o "%)",
     warnings_line |-> "  Warnings: " \o ToString(warnings) \o " ("
                       \o OneDecimal(RateTenths(warnings, total)) \o "%)",
     verdict |-> Verdict(errors, warnings, total)]

\* how many events of a window hold one of the messages ms
RECURSIVE Occurrences(_, _)
Occurrences(bag, ms) ==
    IF ms = {} THEN 0
    ELSE LET m == CHOOSE x \in ms : TRUE IN bag[m] + Occurrences(bag, ms \ {m})

\* log_events before any event was read: how often each message occurred
NoEvents == [m \in 1..Len(Messages) |-> 0]

\* events = logs_client.filter_log_events(..., limit=1000);
\* total_events = len(log_events); the "No log events found" return.
\* The answer holds total_events events; what each one says is read when the
\* loop reaches it.
AnalyzeFilter ==
    /\ pc = "analyze_filter"
    /\ request' = Request("filter_log_events", call.name)
    /\ \/ /\ aws_response' = Raises(ApiError)
          /\ result' = ErrorResult(call, ApiError)
          /\ pc' = "done"
          /\ UNCHANGED analyze_vars
       \/ \E n \in 0..MaxWindow :
             /\ aws_response' = Events(n)
             /\ total_events' = n
             /\ pending' = n
             /\ log_events' = NoEvents
             /\ error_count' = 0
             /\ warning_count' = 0
             /\ IF n = 0
                THEN /\ result' = [kind |-> "text", text |-> "No log events found"]
                     /\ pc' = "done"
                ELSE /\ result' = result
                     /\ pc' = "analyze_scan"
    /\ UNCHANGED <<call, client, sts_calls, fetch_vars>>
    /\ UNCHANGED log_groups
    /\ UNCHANGED outside_tools

\* one round of `for event in log_events`, on an event that holds message m
AnalyzeEvent ==
    /\ pc = "analyze_scan"
    /\ pending > 0
    /\ pending' = pending - 1
    /\ \E m \in 1..Len(Messages) :
          /\ log_events' = [log_events EXCEPT ![m] = @ + 1]
          /\ LET counts == ScanMessage([error_count |-> error_count,
                                        warning_count |-> warning_count], m)
             IN  /\ error_count' = counts.error_count
                 /\ warning_count' = counts.warning_count
    /\ UNCHANGED <<pc, call, client, sts_calls, request, result, aws_response, fetch_vars,
                   total_events>>
    /\ UNCHANGED log_groups
    /\ UNCHANGED outside_tools

\* after the loop: the summary lines and the verdict line
AnalyzeReport ==
    /\ pc = "analyze_scan"
    /\ pending = 0
    /\ result' = AnalysisResult(call, total_events, error_count, warning_count)
    /\ pc' = "done"
    /\ UNCHANGED <<call, client, sts_calls, request, aws_response, fetch_vars, analyze_vars>>
    /\ UNCHANGED log_groups
    /\ UNCHANGED outside_tools

\* the windows analyze_log_group is run on, as the number of events that hold
\* each message: every window of up to MaxWindow events, and a window of 100
\* events of which 5 hold an error keyword and 2 a warning keyword
LargeWindow == <<5, 0, 2, 93>>
Windows ==
    {bag \in [1..Len(Messages) -> 0..MaxWindow] :
        Occurrences(bag, 1..Len(Messages)) <= MaxWindow}
    \cup {LargeWindow}

\* the body of `for event in log_events` run on k events that hold message m:
\* each round adds to the counts what one round adds
ScanRepeated(counts, m, k) ==
    LET once == ScanMessage(counts, m)
    IN  [error_count |-> counts.error_count
                         + k * (once.error_count - counts.error_count),
         warning_count |-> counts.warning_count
                           + k * (once.warning_count - counts.warning_count)]

\* for event in log_events: the counts after the loop over the events of a
\* window, from those that hold message m on
RECURSIVE ScanEvents(_, _, _)
ScanEvents(counts, bag, m) ==
    IF m > Len(bag) THEN counts
    ELSE ScanEvents(ScanRepeated(counts, m, bag[m]), bag, m + 1)

\* analyze_log_group from filter_log_events to its return value, on a window
AnalyzeWindow ==
    /\ pc = "analyze_filter"
    /\ request' = Request("filter_log_events", call.name)
    /\ \/ /\ aws_response' = Raises(ApiError)
          /\ result' = ErrorResult(call, ApiError)
          /\ UNCHANGED analyze_vars
       \/ \E bag \in Windows :
             LET n == Occurrences(bag, 1..Len(Messages))
                 counts == ScanEvents([error_count |-> 0, warning_count |-> 0], bag, 1)
             IN  /\ aws_response' = Events(n)
                 /\ total_events' = n
                 /\ pending' = 0
                 /\ log_events' = bag
                 /\ error_count' = counts.error_count
                 /\ warning_count' = counts.warning_count
                 /\ result' = IF n = 0
                              THEN [kind |-> "text", text |-> "No log events found"]
                              ELSE AnalysisResult(call, n, counts.error_count,
                                                  counts.warning_count)
    /\ pc' = "done"
    /\ UNCHANGED <<call, client, sts_calls, fetch_vars>>
    /\ UNCHANGED log_groups
    /\ UNCHANGED outside_tools

\* analyze_log_group on whole windows
AnalyzeNext == ToolCall \/ ToolGetClient \/ AnalyzeWindow

(***************************************************************************)
(* get_cloudwatch_alarms_for_service: the filter on the service name and   *)
(* the counts per state.                                                   *)
(***************************************************************************)
\* the alarms of an account: AlarmName and, where the alarm has one, Namespace
AlarmPool ==
    <<  [AlarmName |-> <<"E", "C", "2", "-", "C", "P", "U">>,
         Namespace |-> <<"A", "W", "S", "/", "E", "C", "2">>],
        [AlarmName |-> <<"q", "u", "e", "u", "e">>,
         Namespace |-> <<"A", "W", "S", "/", "S", "Q", "S">>],
        [AlarmName |-> <<"s", "E", "c", "2", "-", "d", "i", "s", "k">>],
        [AlarmName |-> <<"l", "a", "t", "e", "n", "c", "y">>,
         Namespace |-> <<"A", "W", "S", "/", "E", "C", "2">>],
        [AlarmName |-> <<"b", "i", "l", "l", "i", "n", "g">>]  >>

\* alarm["StateValue"]: the three values CloudWatch documents, and a string
\* that is none of them (the code takes any string)
StateValues == {"OK", "ALARM", "INSUFFICIENT_DATA", "UNKNOWN"}

\* the MetricAlarms lists a describe_alarms answer can hold: each entry is an
\* alarm of the pool in some state
MetricAlarmLists ==
    UNION {[1..n -> [alarm : 1..Len(AlarmPool), StateValue : StateValues]] :
              n \in 0..MaxAlarms}

\* alarm.get(key, "")
AlarmGet(alarm, key) == IF key \in DOMAIN alarm THEN alarm[key] ELSE <<>>

\* the filter with the names compared as they are written
IncludedCaseSensitive(service_name, a) ==
    \/ Contains(service_name, AlarmGet(AlarmPool[a], "AlarmName"))
    \/ Contains(service_name, AlarmGet(AlarmPool[a], "Namespace"))

\* alarm_name = alarm.get("AlarmName", "").lower()
\* namespace = alarm.get("Namespace", "").lower()
\* service_name.lower() in alarm_name or service_name.lower() in namespace
Included(service_name, a) ==
    LET alarm_name == Lower(AlarmGet(AlarmPool[a], "AlarmName"))
        namespace == Lower(AlarmGet(AlarmPool[a], "Namespace"))
    IN  \/ Contains(Lower(service_name), alarm_name)
        \/ Contains(Lower(service_name), namespace)

\* the filter, for each service name and alarm of the pool
IsIncluded ==
    [s \in AlarmServiceNames |-> [a \in 1..Len(AlarmPool) |-> Included(s, a)]]

\* service_alarms: for alarm in all_alarms: if ...: service_alarms.append(
\*     {"name": alarm["AlarmName"], "state": alarm["StateValue"], ...})
RECURSIVE ServiceAlarms(_, _)
ServiceAlarms(service_name, all_alarms) ==
    IF all_alarms = <<>> THEN <<>>
    ELSE LET alarm == Head(all_alarms)
             rest == ServiceAlarms(service_name, Tail(all_alarms))
         IN  IF IsIncluded[service_name][alarm.alarm]
             THEN <<[name |-> Join(AlarmPool[alarm.alarm].AlarmName),
                     state |-> alarm.StateValue]>> \o rest
             ELSE rest

\* for alarm in service_alarms: if alarm["state"] == "OK": alarm_ok += 1
\* elif alarm["state"] == "ALARM": in_alarm += 1  else: insufficient_data += 1
RECURSIVE CountStates(_, _)
CountStates(counts, service_alarms) ==
    IF service_alarms = <<>> THEN counts
    ELSE LET state == Head(service_alarms).state
         IN  CountStates(
                 IF state = "OK" THEN [counts EXCEPT !.alarm_ok = @ + 1]
                 ELSE IF state = "ALARM" THEN [counts EXCEPT !.in_alarm = @ + 1]
                 ELSE [counts EXCEPT !.insufficient_data = @ + 1],
                 Tail(service_alarms))

\* the text the tool returns for the answer all_alarms
AlarmsResult(c, all_alarms) ==
    LET service_alarms == ServiceAlarms(c.service_name, all_alarms)
        counts == CountStates([alarm_ok |-> 0, in_alarm |-> 0, insufficient_data |-> 0],
                              service_alarms)
    IN  IF service_alarms = <<>>
        THEN [kind |-> "text", text |-> "No CloudWatch alarms found for service",
              total |-> 0, alarm_ok |-> 0, in_alarm |-> 0, insufficient_data |-> 0,
              details |-> <<>>]
        ELSE [kind |-> "text", text |-> "CloudWatch Alarms for",
              total |-> Len(service_alarms), alarm_ok |-> counts.alarm_ok,
              in_alarm |-> counts.in_alarm,
              insufficient_data |-> counts.insufficient_data,
              details |-> service_alarms]

\* response = cloudwatch.describe_alarms(); the filter, the counts, the text.
\* A raise goes to the tool's except clause.
AlarmsDescribe ==
    /\ pc = "alarms_describe"
    /\ request' = Request("describe_alarms", "")
    /\ \/ /\ aws_response' = Raises(ApiError)
          /\ result' = ErrorResult(call, ApiError)
       \/ \E all_alarms \in MetricAlarmLists :
             /\ aws_response' = MetricAlarms(all_alarms)
             /\ result' = AlarmsResult(call, all_alarms)
    /\ pc' = "done"
    /\ UNCHANGED <<call, client, sts_calls, fetch_vars, analyze_vars>>
    /\ UNCHANGED log_groups
    /\ UNCHANGED outside_tools

\* the log tools called with any time window and any cap
QueryNext ==
    \/ QueryCall
    \/ ToolGetClient
    \/ FetchPrefix
    \/ FetchDescribe
    \/ FetchFilter
    \/ FetchPageEnd
    \/ FetchFormat
    \/ AnalyzeFilter
    \/ AnalyzeEvent
    \/ AnalyzeReport

ToolNext ==
    \/ ToolCall
    \/ ToolGetClient
    \/ ToolRequest
    \/ ListPage
    \/ FetchPrefix
    \/ FetchDescribe
    \/ FetchFilter
    \/ FetchPageEnd
    \/ FetchFormat
    \/ AnalyzeFilter
    \/ AnalyzeEvent
    \/ AnalyzeReport
    \/ AlarmsDescribe

(***************************************************************************)
(* agent_handler and initialize_agent (src/ambient_agent.py).  Requests    *)
(* run concurrently; each step below is one request's next statement.      *)
(***************************************************************************)
Reqs == 1..MaxRequests

\* monitoring_agent = None
NoAgent == 0

\* json.dumps of a str that needs no escape
JsonString(text) == "\"" \o text \o "\""

\* json.dumps({"error": error_msg})
JsonDumpsError(error_msg) == "{\"error\": " \o JsonString(error_msg) \o "}"

\* the exceptions raised under agent_handler's try, all subclasses of
\* Exception, with their str()
Exceptions ==
    [FileNotFoundError |-> "config file not found",
     KeyError |-> "'system_prompt_fpath'",
     NoRegionError |-> "You must specify a region.",
     ModelError |-> "An error occurred (ThrottlingException) when calling the InvokeModel operation",
     GraphRecursionError |-> "Recursion limit reached without hitting a stop condition."]

\* the payloads a request carries
Payloads ==
    {[prompt |-> Absent, session_id |-> Absent], [prompt |-> "", session_id |-> "s1"]}
    \cup [prompt : {"check the alarms"}, session_id : {Absent, "s1"}]

DefaultSession == "default-session"
ThreadIds == {DefaultSession, "s1"}

\* the final text of the reasoning model
Answer == "No alarms are firing."

IdleRequest ==
    [pc |-> "idle", payload |-> [prompt |-> Absent, session_id |-> Absent],
     agent |-> NoAgent, thread_id |-> "", messages |-> <<>>, steps |-> 0,
     response |-> None, raised |-> "", caught |-> "",
     called_initialize |-> FALSE, called_model |-> FALSE, called_tool |-> FALSE]

AgentInit ==
    /\ monitoring_agent = NoAgent
    /\ _initialized = FALSE
    /\ _config_data = None
    /\ _agent_system_prompt = None
    /\ checkpointers = 0
    /\ storage = [k \in Reqs |-> [t \in ThreadIds |-> <<>>]]
    /\ req = [r \in Reqs |-> IdleRequest]

\* return response: the handler's locals are gone
Return(frame, response) ==
    [frame EXCEPT !.pc = "done", !.response = response,
                  !.agent = NoAgent, !.thread_id = "", !.messages = <<>>, !.steps = 0]

\* a handler whose try has no except clause: the exception leaves the handler
ExceptPropagates(frame, exception) ==
    [frame EXCEPT !.pc = "done", !.raised = exception,
                  !.agent = NoAgent, !.thread_id = "", !.messages = <<>>, !.steps = 0]

\* except Exception as e: return json.dumps({"error": f"Error processing request: {str(e)}"})
Except(frame, exception) ==
    Return([frame EXCEPT !.caught = exception],
           JsonDumpsError("Error processing request: " \o Exceptions[exception]))

\* a prompt test that lets the empty prompt through (`is None` for `not`)
PromptMissingNoneOnly(payload) == payload.prompt = Absent

\* user_prompt = payload.get("prompt"); not user_prompt
PromptMissing(payload) == ~Truthy(payload.prompt)

\* the request arrives: agent_handler(payload) is entered.  Requests are
\* numbered in the order they arrive.
Receive(r) ==
    /\ req[r].pc = "idle"
    /\ \A earlier \in 1..(r - 1) : req[earlier].pc /= "idle"
    /\ \E payload \in Payloads :
          req' = [req EXCEPT ![r].pc = "prompt", ![r].payload = payload]
    /\ UNCHANGED <<monitoring_agent, _initialized, _config_data, _agent_system_prompt,
                   checkpointers, storage>>
    /\ UNCHANGED outside_agent

\* if not user_prompt: return json.dumps({"error": error_msg})
CheckPrompt(r) ==
    /\ req[r].pc = "prompt"
    /\ req' = IF PromptMissing(req[r].payload)
              THEN [req EXCEPT ![r] =
                       Return(@, JsonDumpsError("No 'prompt' field found in payload"))]
              ELSE [req EXCEPT ![r].pc = "initialize"]
    /\ UNCHANGED <<monitoring_agent, _initialized, _config_data, _agent_system_prompt,
                   checkpointers, storage>>
    /\ UNCHANGED outside_agent

\* initialize_agent(): if _initialized: return
InitializeCheck(r) ==
    /\ req[r].pc = "initialize"
    /\ req' = [req EXCEPT ![r].pc = IF _initialized THEN "invoke" ELSE "load",
                          ![r].called_initialize = TRUE]
    /\ UNCHANGED <<monitoring_agent, _initialized, _config_data, _agent_system_prompt,
                   checkpointers, storage>>
    /\ UNCHANGED outside_agent

\* a body that sets the flag first: _initialized = True before the loading
InitializeLoadFlagsFirst(r) ==
    /\ req[r].pc = "load"
    /\ _initialized' = TRUE
    /\ \/ /\ req' = [req EXCEPT ![r] = Except(@, "FileNotFoundError")]
          /\ UNCHANGED <<_config_data, _agent_system_prompt>>
       \/ /\ req' = [req EXCEPT ![r] = Except(@, "KeyError")]
          /\ _config_data' = "config"
          /\ UNCHANGED _agent_system_prompt
       \/ /\ req' = [req EXCEPT ![r] = Except(@, "NoRegionError")]
          /\ _config_data' = "config"
          /\ _agent_system_prompt' = "system prompt"
       \/ /\ req' = [req EXCEPT ![r].pc = "create"]
          /\ _config_data' = "config"
          /\ _agent_system_prompt' = "system prompt"
    /\ UNCHANGED <<monitoring_agent, checkpointers, storage>>
    /\ UNCHANGED outside_agent

\* load_config, load_system_prompt, boto3.client, ChatBedrock: each can raise,
\* after the globals assigned before it were assigned
InitializeLoad(r) ==
    /\ req[r].pc = "load"
    /\ \/ /\ req' = [req EXCEPT ![r] = Except(@, "FileNotFoundError")]
          /\ UNCHANGED <<_config_data, _agent_system_prompt>>
       \/ /\ req' = [req EXCEPT ![r] = Except(@, "KeyError")]
          /\ _config_data' = "config"
          /\ UNCHANGED _agent_system_prompt
       \/ /\ req' = [req EXCEPT ![r] = Except(@, "NoRegionError")]
          /\ _config_data' = "config"
          /\ _agent_system_prompt' = "system prompt"
       \/ /\ req' = [req EXCEPT ![r].pc = "create"]
          /\ _config_data' = "config"
          /\ _agent_system_prompt' = "system prompt"
    /\ UNCHANGED <<monitoring_agent, _initialized, checkpointers, storage>>
    /\ UNCHANGED outside_agent

\* checkpointer = MemorySaver(); monitoring_agent = create_agent(...)
InitializeCreate(r) ==
    /\ req[r].pc = "create"
    /\ checkpointers' = checkpointers + 1
    /\ monitoring_agent' = checkpointers + 1
    /\ req' = [req EXCEPT ![r].pc = "flag"]
    /\ UNCHANGED <<_initialized, _config_data, _agent_system_prompt, storage>>
    /\ UNCHANGED outside_agent

\* _initialized = True
InitializeFlag(r) ==
    /\ req[r].pc = "flag"
    /\ _initialized' = TRUE
    /\ req' = [req EXCEPT ![r].pc = "invoke"]
    /\ UNCHANGED <<monitoring_agent, _config_data, _agent_system_prompt, checkpointers,
                   storage>>
    /\ UNCHANGED outside_agent

\* one turn of a transcript
Turn(r, role, n) == [request |-> r, role |-> role, round |-> n]

\* a handler that ignores the payload's session_id
ThreadIdAlwaysDefault(payload) == DefaultSession

\* thread_id = payload.get("session_id", "default-session")
ThreadId(payload) ==
    IF payload.session_id = Absent THEN DefaultSession ELSE payload.session_id

\* a memory store that keeps one history for all thread ids
ThreadHistoryShared(agent, thread_id) ==
    storage[agent][DefaultSession] \o storage[agent]["s1"]

\* the turns the agent's checkpointer holds for thread_config's thread_id
ThreadHistory(agent, thread_id) == storage[agent][thread_id]

\* monitoring_agent.invoke({"messages": [user message]}, thread_config): the
\* graph loads the thread's saved turns from the agent's checkpointer, adds
\* the user message and saves
InvokeStart(r) ==
    /\ req[r].pc = "invoke"
    /\ LET agent == monitoring_agent
           thread_id == ThreadId(req[r].payload)
           messages == Append(ThreadHistory(agent, thread_id), Turn(r, "user", 0))
       IN  /\ req' = [req EXCEPT ![r].pc = "model", ![r].agent = agent,
                                  ![r].thread_id = thread_id, ![r].messages = messages]
           /\ storage' = [storage EXCEPT ![agent][thread_id] = messages]
    /\ UNCHANGED <<monitoring_agent, _initialized, _config_data, _agent_system_prompt,
                   checkpointers>>
    /\ UNCHANGED outside_agent

\* the reasoning model is called and fails: the exception leaves invoke
ModelFails(r) ==
    /\ req[r].pc = "model"
    /\ req' = [req EXCEPT ![r] = Except([@ EXCEPT !.called_model = TRUE], "ModelError")]
    /\ UNCHANGED <<monitoring_agent, _initialized, _config_data, _agent_system_prompt,
                   checkpointers, storage>>
    /\ UNCHANGED outside_agent

\* the reasoning model asks for a tool call.  Below the recursion limit the
\* tool runs and its result is added to the transcript; at the limit the
\* graph raises GraphRecursionError
ModelCallsTool(r) ==
    /\ req[r].pc = "model"
    /\ IF req[r].steps < RecursionLimit
       THEN LET messages == req[r].messages
                            \o <<Turn(r, "assistant", req[r].steps + 1),
                                 Turn(r, "tool", req[r].steps + 1)>>
            IN  /\ req' = [req EXCEPT ![r].messages = messages,
                                       ![r].steps = @ + 1,
                                       ![r].called_model = TRUE,
                                       ![r].called_tool = TRUE]
                /\ storage' = [storage EXCEPT ![req[r].agent][req[r].thread_id] = messages]
       ELSE /\ req' = [req EXCEPT ![r] = Except([@ EXCEPT !.called_model = TRUE],
                                                "GraphRecursionError")]
            /\ UNCHANGED storage
    /\ UNCHANGED <<monitoring_agent, _initialized, _config_data, _agent_system_prompt,
                   checkpointers>>
    /\ UNCHANGED outside_agent

\* the reasoning model gives its final answer: invoke returns, and the handler
\* returns final_message.content
ModelAnswers(r) ==
    /\ req[r].pc = "model"
    /\ LET messages == Append(req[r].messages, Turn(r, "assistant", req[r].steps + 1))
       IN  /\ req' = [req EXCEPT ![r] = Return([@ EXCEPT !.called_model = TRUE], Answer)]
           /\ storage' = [storage EXCEPT ![req[r].agent][req[r].thread_id] = messages]
    /\ UNCHANGED <<monitoring_agent, _initialized, _config_data, _agent_system_prompt,
                   checkpointers>>
    /\ UNCHANGED outside_agent

AgentNext ==
    \E r \in Reqs :
        \/ Receive(r)
        \/ CheckPrompt(r)
        \/ InitializeCheck(r)
        \/ InitializeLoad(r)
        \/ InitializeCreate(r)
        \/ InitializeFlag(r)
        \/ InvokeStart(r)
        \/ ModelFails(r)
        \/ ModelCallsTool(r)
        \/ ModelAnswers(r)

(***************************************************************************)
(* Region resolution: _get_region() and the region_name of the clients     *)
(* _get_cross_account_client builds (src/tools/aws_helpers.py).            *)
(***************************************************************************)
\* x or y
PyOr(x, y) == IF Truthy(x) THEN x ELSE y

\* os.environ.get(key) of an environment env
EnvironGet(env, key) == IF env[key] = Absent THEN None ELSE env[key]

\* boto3.session.Session().region_name raised
SessionRaises == "<raises>"

\* the values of an environment variable, of the ambient session's region and
\* of the region argument
EnvironValues == {Absent, "", "us-west-2"}
EnvironRegionValues == {Absent, "", "ap-south-1"}
SessionRegions == {None, "eu-central-1", SessionRaises}
RegionArgs == {None, "", "eu-west-1"}

\* a region lookup that reads AWS_REGION before AWS_DEFAULT_REGION
GetRegionEnvRegionFirst(env, session) ==
    LET region == PyOr(EnvironGet(env, "AWS_REGION"), EnvironGet(env, "AWS_DEFAULT_REGION"))
    IN  IF Truthy(region) THEN region
        ELSE IF session /= SessionRaises /\ Truthy(session) THEN session
        ELSE "us-east-1"

\* _get_region(), in environment env with the ambient session region session
_get_region(env, session) ==
    LET region == PyOr(EnvironGet(env, "AWS_DEFAULT_REGION"), EnvironGet(env, "AWS_REGION"))
    IN  IF Truthy(region) THEN region
        ELSE IF session /= SessionRaises /\ Truthy(session) THEN session
        ELSE "us-east-1"

\* target_region = region or _get_region()
target_region(region, env, session) ==
    IF Truthy(region) THEN region ELSE _get_region(env, session)

\* the boto3.client(...) constructions of one _get_cross_account_client call
\* whose STS and client calls succeed, in the order they are made
BotoClients(service, account_id, role_name, region_name) ==
    IF Truthy(account_id) /\ Truthy(role_name)
    THEN <<[service |-> "sts", region_name |-> region_name],
           [service |-> service, region_name |-> region_name]>>
    ELSE <<[service |-> service, region_name |-> region_name]>>

RegionInit ==
    /\ environ = [AWS_DEFAULT_REGION |-> Absent, AWS_REGION |-> Absent]
    /\ session_region = None
    /\ region_arg = None
    /\ built_clients = <<>>

\* the process runs in an environment
SetEnvironment ==
    /\ \E d \in EnvironValues, r \in EnvironRegionValues :
          environ' = [AWS_DEFAULT_REGION |-> d, AWS_REGION |-> r]
    /\ session_region' \in SessionRegions
    /\ region_arg' = None
    /\ built_clients' = <<>>
    /\ UNCHANGED outside_region

\* _get_cross_account_client(service, account_id, role_name, region)
GetCrossAccountClient ==
    /\ \E region \in RegionArgs, account_id \in {None, "222222222222"} :
          /\ region_arg' = region
          /\ built_clients' =
                BotoClients("logs", account_id, "MonitoringRole",
                            target_region(region, environ, session_region))
    /\ UNCHANGED <<environ, session_region>>
    /\ UNCHANGED outside_region

RegionNext == SetEnvironment \/ GetCrossAccountClient

(***************************************************************************)
(* lambda_handler (src/lambda/scheduled_monitor.py): token, agent call,    *)
(* report to the webhook, and the error notification.  A text the handler  *)
(* only embeds or cuts is held by its length.                              *)
(***************************************************************************)
\* the environments a run finds
LambdaEnvirons ==
    [AGENTCORE_RUNTIME_URL : {Absent, "", "https://agent.example/invocations"},
     SLACK_WEBHOOK_URL : {Absent, "", "https://hooks.example/services/T"},
     COGNITO_DOMAIN_URL : {Absent, "https://idp.example"},
     M2M_CLIENT_ID : {Absent, "m2m-client"},
     M2M_CLIENT_SECRET : {Absent, "", "m2m-secret"},
     COGNITO_CLIENT_ID : {Absent, "app-client"},
     COGNITO_USERNAME : {Absent, "monitor"},
     COGNITO_PASSWORD : {Absent, "password"}]

\* len(response.data.decode('utf-8')) of the answers the run gets
BodyLengths == {0, 120, 2900, 2901, 5000}

\* what a network request answers: it raises, or it returns a status and a body
HttpAnswers ==
    {[raised |-> TRUE, status |-> 0, body |-> 0]}
    \cup [raised : {FALSE}, status : {200, 503}, body : BodyLengths]

\* no exception was caught
NoException == [type |-> "", len |-> 0]

\* a request as the run sent it: where to, what it carries, the length of
\* the text of each section block of a webhook message, and the status it
\* was answered with
Sent(to, carries, sections) ==
    [to |-> to, carries |-> carries, sections |-> sections, status |-> 0]

\* the status of a request that raised
Raised == -1

\* http.request(...) returned: the request with response.status, or with
\* Raised when the call raised
Answered(message, answer) ==
    [message EXCEPT !.status = IF answer.raised THEN Raised ELSE answer.status]

\* a choice of the flow that tries username/password first
AuthFlowPasswordFirst(env) ==
    IF /\ Truthy(EnvironGet(env, "COGNITO_USERNAME"))
       /\ Truthy(EnvironGet(env, "COGNITO_PASSWORD"))
       /\ Truthy(EnvironGet(env, "COGNITO_CLIENT_ID"))
    THEN "USER_PASSWORD_AUTH"
    ELSE IF /\ Truthy(EnvironGet(env, "M2M_CLIENT_ID"))
            /\ Truthy(EnvironGet(env, "M2M_CLIENT_SECRET"))
            /\ Truthy(EnvironGet(env, "COGNITO_DOMAIN_URL"))
    THEN "client_credentials"
    ELSE "none"

\* if m2m_client_id and m2m_client_secret and cognito_domain_url: ...
\* elif cognito_username and cognito_password and cognito_client_id: ...
\* else: raise
AuthFlow(env) ==
    IF /\ Truthy(EnvironGet(env, "M2M_CLIENT_ID"))
       /\ Truthy(EnvironGet(env, "M2M_CLIENT_SECRET"))
       /\ Truthy(EnvironGet(env, "COGNITO_DOMAIN_URL"))
    THEN "client_credentials"
    ELSE IF /\ Truthy(EnvironGet(env, "COGNITO_USERNAME"))
            /\ Truthy(EnvironGet(env, "COGNITO_PASSWORD"))
            /\ Truthy(EnvironGet(env, "COGNITO_CLIENT_ID"))
    THEN "USER_PASSWORD_AUTH"
    ELSE "none"

\* format_slack_message(agent_response): the section blocks are f"*{timestamp}*"
\* (a timestamp of 28 characters) and agent_response[:2900]
format_slack_message(length) ==
    Sent("slack_webhook_url", "report", <<30, Min(length, 2900)>>)

\* error_message: its section block is
\* f"*Time:* {23 characters}\n*Error:*\n```{str(e)}```"
error_message(e) == Sent("slack_webhook_url", "error", <<47 + e.len>>)

\* before the run: nothing is set in the environment
LambdaInit ==
    /\ lambda_pc = "idle"
    /\ lambda_environ = [key \in DOMAIN CHOOSE env \in LambdaEnvirons : TRUE |-> Absent]
    /\ bearer_token = None
    /\ lambda_sent = <<>>
    /\ agent_response = 0
    /\ lambda_e = NoException
    /\ lambda_return = 0

\* lambda_handler(event, context) is invoked in an environment; up to `try`:
\* the two URL tests
LambdaStart ==
    /\ lambda_pc = "idle"
    /\ \E env \in LambdaEnvirons :
          /\ lambda_environ' = env
          /\ IF /\ Truthy(EnvironGet(env, "AGENTCORE_RUNTIME_URL"))
                /\ Truthy(EnvironGet(env, "SLACK_WEBHOOK_URL"))
             THEN /\ lambda_pc' = "token"
                  /\ UNCHANGED lambda_return
             ELSE /\ lambda_pc' = "returned"
                  /\ lambda_return' = 500
    /\ UNCHANGED <<bearer_token, lambda_sent, agent_response, lambda_e>>
    /\ UNCHANGED outside_lambda

\* Step 1: get_token_using_client_credentials (a POST to the token URL that
\* raises unless the status is 200), get_cognito_token (initiate_auth), or
\* the raise for want of credentials
LambdaToken ==
    /\ lambda_pc = "token"
    /\ LET flow == AuthFlow(lambda_environ)
       IN  IF flow = "none"
           THEN /\ lambda_e' = [type |-> "NoCredentials", len |-> 94]
                /\ lambda_pc' = "except"
                /\ UNCHANGED <<bearer_token, lambda_sent>>
           ELSE \E answer \in HttpAnswers :
                   /\ lambda_sent' =
                         Append(lambda_sent,
                                Answered(Sent(IF flow = "client_credentials"
                                              THEN "token_url" ELSE "cognito-idp",
                                              flow, <<>>), answer))
                   /\ IF answer.raised
                      THEN /\ lambda_e' = [type |-> "RequestRaised", len |-> 115]
                           /\ lambda_pc' = "except"
                           /\ UNCHANGED bearer_token
                      ELSE IF flow = "client_credentials" /\ answer.status /= 200
                      THEN \* "Failed to retrieve token: {status} - {data}"
                           /\ lambda_e' = [type |-> "TokenRequestFailed",
                                           len |-> 32 + answer.body]
                           /\ lambda_pc' = "except"
                           /\ UNCHANGED bearer_token
                      ELSE /\ bearer_token' = IF flow = "client_credentials"
                                              THEN "access_token" ELSE "IdToken"
                           /\ lambda_pc' = "agent"
                           /\ UNCHANGED lambda_e
    /\ UNCHANGED <<lambda_environ, agent_response, lambda_return>>
    /\ UNCHANGED outside_lambda

\* Step 2: the POST to agentcore_url with the bearer token; a status other
\* than 200 raises "AgentCore request failed: {status} - {data}"
LambdaAgent ==
    /\ lambda_pc = "agent"
    /\ \E answer \in HttpAnswers :
       /\ lambda_sent' =
             Append(lambda_sent,
                    Answered(Sent("agentcore_url", bearer_token, <<>>), answer))
       /\ IF answer.raised
          THEN /\ lambda_e' = [type |-> "RequestRaised", len |-> 115]
               /\ lambda_pc' = "except"
               /\ UNCHANGED agent_response
          ELSE IF answer.status /= 200
          THEN /\ lambda_e' = [type |-> "AgentRequestFailed", len |-> 32 + answer.body]
               /\ lambda_pc' = "except"
               /\ UNCHANGED agent_response
          ELSE \* agent_response = response.data.decode('utf-8')
               /\ agent_response' = answer.body
               /\ lambda_pc' = "report"
               /\ UNCHANGED lambda_e
    /\ UNCHANGED <<lambda_environ, bearer_token, lambda_return>>
    /\ UNCHANGED outside_lambda

\* Steps 3 and 4: format_slack_message(agent_response), the POST to the
\* webhook, and the return by its status
LambdaReport ==
    /\ lambda_pc = "report"
    /\ \E answer \in HttpAnswers :
       /\ lambda_sent' =
             Append(lambda_sent,
                    Answered(format_slack_message(agent_response), answer))
       /\ IF answer.raised
          THEN /\ lambda_e' = [type |-> "RequestRaised", len |-> 115]
               /\ lambda_pc' = "except"
               /\ UNCHANGED lambda_return
          ELSE /\ lambda_return' = IF answer.status = 200 THEN 200 ELSE 500
               /\ lambda_pc' = "returned"
               /\ UNCHANGED lambda_e
    /\ UNCHANGED <<lambda_environ, bearer_token, agent_response>>
    /\ UNCHANGED outside_lambda

\* except Exception as e: the error notification is posted to the webhook,
\* whatever that request does is ignored, and the handler returns 500
LambdaExcept ==
    /\ lambda_pc = "except"
    /\ \E answer \in HttpAnswers :
          lambda_sent' = Append(lambda_sent, Answered(error_message(lambda_e), answer))
    /\ lambda_return' = 500
    /\ lambda_pc' = "returned"
    /\ UNCHANGED <<lambda_environ, bearer_token, agent_response, lambda_e>>
    /\ UNCHANGED outside_lambda

LambdaNext ==
    \/ LambdaStart
    \/ LambdaToken
    \/ LambdaAgent
    \/ LambdaReport
    \/ LambdaExcept

(***************************************************************************)
(* The specifications.                                                     *)
(***************************************************************************)
Init == ToolInit /\ AgentInit /\ RegionInit /\ previous_call = NoPrevious /\ LambdaInit

\* the tool layer: one tool call after another
Next == ToolNext
Spec == Init /\ [][Next]_vars

\* the request handler
SpecAgent == Init /\ [][AgentNext]_vars

\* analyze_log_group, one window at a time
SpecAnalyze == Init /\ [][AnalyzeNext]_vars

\* the region of the clients the broker builds
SpecRegion == Init /\ [][RegionNext]_vars

\* setup_cross_account_access called again and again
SpecSetup == Init /\ [][SetupNext]_vars

\* the log tools called with any time window and any cap
SpecQuery == Init /\ [][QueryNext]_vars

\* one run of the scheduled trigger
SpecLambda == Init /\ [][LambdaNext]_vars

(***************************************************************************)
(* Properties of fetch_cloudwatch_logs_for_service.                        *)
(***************************************************************************)
Fetching == call.tool = "fetch_cloudwatch_logs_for_service"

\* C1: for every max_events = N > 0, every service and every population of
\* log groups and events, the text the tool returns lists at most N entries.
C1_AtMostMaxEventsListed ==
    (Fetching /\ call.max_events > 0 /\ result.kind = "text")
        => Len(result.entries) <= call.max_events

\* the case of C1: more events were collected than max_events, and the text
\* lists max_events of them
C1_Witness ==
    /\ Fetching
    /\ pc = "done"
    /\ result.kind = "text"
    /\ Len(all_logs) > call.max_events
    /\ Len(result.entries) = call.max_events

\* C2: once the number of collected events has reached max_events, no
\* describe_log_groups page is requested and no filter_log_events call is made.
C2_NoRequestAfterCap ==
    (Fetching /\ request.api \in {"describe_log_groups", "filter_log_events"})
        => request.collected < call.max_events

\* the events 1..n of a log group, as all_logs holds them
EventsOf(log_group, n) == [k \in 1..n |-> [log_group |-> log_group, event |-> k]]

\* C12: once the tool has its client, a failure of describe_log_groups or of
\* filter_log_events never ends the fetch with the error text; every step
\* keeps the events collected so far; a group whose filter_log_events answers
\* before the cap is reached has its events appended, up to the cap; and the
\* text returned lists the collected events up to max_events.
C12_FailuresNeverAbort ==
    [][LET Untimed(logs) ==
               [i \in 1..Len(logs) |->
                   [log_group |-> logs[i].log_group, event |-> logs[i].event]]
       IN
       (Fetching /\ client /= NoClient /\ pc \notin {"idle", "client", "done"}) =>
          /\ result'.kind /= "error"
          /\ Len(all_logs') >= Len(all_logs)
          /\ SubSeq(all_logs', 1, Len(all_logs)) = all_logs
          /\ (/\ pc = "fetch_group"
              /\ group_i <= Len(page)
              /\ aws_response'.raised = ""
              /\ Len(all_logs) < call.max_events)
                => Untimed(all_logs') = Untimed(all_logs) \o EventsOf(page[group_i],
                                                  Min(aws_response'.events,
                                                      call.max_events - Len(all_logs)))
          /\ pc' = "done" =>
                /\ result'.kind = "text"
                /\ result'.entries = SliceTo(all_logs, call.max_events)
      ]_vars

\* the case of C12: the last log group failed, and the events of an earlier
\* group are returned
C12_Witness ==
    /\ Fetching
    /\ pc = "done"
    /\ request.api = "filter_log_events"
    /\ aws_response.raised = ApiError
    /\ result.kind = "text"
    /\ Len(result.entries) >= 1

\* C23: list_log_groups collects and returns at most `limit` log group
\* names, for every limit >= 0 and every population of pages and groups, and
\* it requests no page after the first once it holds `limit` names.
C23_AtMostLimitListed ==
    (call.tool = "list_log_groups" /\ call.limit >= 0) =>
        /\ Len(log_groups) <= call.limit
        /\ (pc = "done" /\ result.kind = "text") =>
              /\ Len(result.names) <= call.limit
              /\ result.found <= call.limit
        /\ (request.api = "describe_log_groups" /\ page_no > 1)
              => request.collected < call.limit

\* C24: the entries are collected and returned in the order of discovery: by
\* prefix in the order of the table, then by page of the log-group listing,
\* then by group within the page, then by event within the group's answer;
\* the text lists them in that order whatever their timestamps are.
C24_DiscoveryOrder ==
    LET Place(e) ==
            CHOOSE key \in (1..Len(log_group_prefixes)) \X (1..MaxPages)
                               \X (1..MaxUpstreamGroups) :
                GroupName(log_group_prefixes[key[1]], key[2], key[3]) = e.log_group
        Earlier(a, b) ==
            LET x == Place(a)
                y == Place(b)
            IN  \/ x[1] < y[1]
                \/ x[1] = y[1] /\ x[2] < y[2]
                \/ x[1] = y[1] /\ x[2] = y[2] /\ x[3] < y[3]
                \/ x = y /\ a.event < b.event
        InOrder(logs) ==
            \A i, j \in 1..Len(logs) : i < j => Earlier(logs[i], logs[j])
    IN  Fetching =>
            /\ InOrder(all_logs)
            /\ (pc = "done" /\ result.kind = "text") =>
                  /\ InOrder(result.entries)
                  /\ \A i \in 1..Len(result.entries) : result.entries[i] = all_logs[i]

\* the case of C24: the events of the second prefix are older than those of
\* the first, and are listed after them
C24_Witness ==
    /\ Fetching
    /\ pc = "done"
    /\ Len(log_group_prefixes) = 2
    /\ Len(result.entries) = 2
    /\ result.entries[1].log_group = GroupName(log_group_prefixes[1], 1, 1)
    /\ result.entries[2].log_group = GroupName(log_group_prefixes[2], 1, 1)
    /\ result.entries[1].timestamp > result.entries[2].timestamp

\* C25: a service name that is a key of the table once put in lower case
\* resolves to that key's list of prefixes, any other name to the one prefix
\* "/aws/{service}/" with the name as given; log groups are listed under the
\* resolved prefixes only, and events are asked only of groups listed under
\* them.
C25_PrefixResolution ==
    LET service == Join(call.service_name)
        resolved ==
            CASE Join(Lower(call.service_name)) = "lambda" -> <<"/aws/lambda/">>
              [] Join(Lower(call.service_name)) = "ec2" -> <<"/aws/ec2/", "/var/log/">>
              [] OTHER -> <<"/aws/" \o service \o "/">>
        Under == {GroupName(resolved[i], k, j) :
                     i \in 1..Len(resolved), k \in 1..MaxPages, j \in 1..MaxUpstreamGroups}
    IN  (Fetching /\ client /= NoClient /\ pc \notin {"idle", "client"}) =>
            /\ log_group_prefixes = resolved
            /\ request.api = "describe_log_groups" =>
                  \E i \in 1..Len(resolved) : request.target = resolved[i]
            /\ request.api = "filter_log_events" => request.target \in Under
            /\ \A i \in 1..Len(all_logs) : all_logs[i].log_group \in Under

\* the case of C25: the name "EC2" was resolved to the two prefixes of the
\* key "ec2", and events were asked of a group under the second
C25_Witness ==
    /\ Fetching
    /\ Join(call.service_name) = "EC2"
    /\ log_group_prefixes = <<"/aws/ec2/", "/var/log/">>
    /\ request.api = "filter_log_events"
    /\ request.target = "/var/log/group-1-1"

\* C26: a filter_log_events request is made only by a call whose hours and,
\* for fetch_cloudwatch_logs_for_service, max_events are greater than 0.
C26_QueriesHavePositiveWindowAndCap ==
    request.api = "filter_log_events" =>
        /\ call.hours > 0
        /\ Fetching => call.max_events > 0

\* C27: for every max_events > 0 the list of collected events never holds
\* more than max_events events, and in a text that lists entries the count of
\* the header line is the number of entries listed and is at most max_events.
C27_HeaderCountIsEntriesListed ==
    (Fetching /\ call.max_events > 0) =>
        /\ Len(all_logs) <= call.max_events
        /\ (pc = "done" /\ result.kind = "text" /\ result.entries /= <<>>) =>
              /\ result.retrieved = Len(result.entries)
              /\ result.retrieved <= call.max_events

(***************************************************************************)
(* Properties of the credential broker as the tools use it.                *)
(***************************************************************************)
ExactlyOneOfPair(c) == Truthy(c.account_id) /= Truthy(c.role_name)
BothOfPair(c) == Truthy(c.account_id) /\ Truthy(c.role_name)

\* C3: a call of any tool that supplies exactly one of account_id and
\* role_name returns an error text, and no client under the caller's own
\* identity is created or used for it.
C3_OneOfPairIsUsageError ==
    (call.tool \in ToolNames /\ ExactlyOneOfPair(call))
        => /\ client.identity.kind /= "ambient"
           /\ request.identity /= "ambient"
           /\ pc = "done" => result.kind = "error"

\* C4: setup_cross_account_access returns its "verified successfully" text
\* only when get_caller_identity ran under the session of the assumed role
\* role_name of account account_id.
C4_VerifiedOnlyUnderAssumedRole ==
    (call.tool = "setup_cross_account_access" /\ result.kind = "text")
        => /\ sts_calls = <<RoleArn(call.account_id, call.role_name)>>
           /\ request.api = "get_caller_identity"
           /\ request.identity = "assumed"
           /\ result.assumed_account = call.account_id
           /\ result.assumed_arn = AssumedIdentity(call.account_id, call.role_name).arn

\* C5: with both account_id and role_name supplied, the tool never holds a
\* client under the caller's own identity; when the broker fails the tool
\* returns an error text and has sent no request.
C5_AssumeFailureIsReraised ==
    (call.tool \in ToolNames /\ BothOfPair(call))
        => /\ client.identity.kind /= "ambient"
           /\ request.identity /= "ambient"
           /\ (pc \notin {"idle", "client"} /\ client = NoClient)
                 => /\ pc = "done"
                    /\ result.kind = "error"
                    /\ request = NoRequest

\* the case of C5: the role assumption was asked for and failed
C5_Witness ==
    /\ BothOfPair(call)
    /\ pc = "done"
    /\ sts_calls = <<RoleArn(call.account_id, call.role_name)>>
    /\ client = NoClient
    /\ result = ErrorResult(call, AssumeRoleError)

\* C11: every tool returns a text for every input and every failure of the
\* broker or of an AWS operation; no exception leaves a tool, and an error
\* text is the tool's error prefix followed by the message of the exception
\* that was raised.  Outside the loops of fetch_cloudwatch_logs_for_service
\* every such failure ends in the error text.
C11_ToolsReturnText ==
    (call.tool \in ToolNames /\ pc = "done") =>
        /\ result.kind \in {"text", "error"}
        /\ result.kind = "error" =>
              /\ aws_response.raised \in {AssumeRoleError, ClientError, ApiError}
              /\ result.text = ToolErrorPrefix(call) \o aws_response.raised
        /\ (aws_response.raised /= "" /\ (Fetching => client = NoClient))
              => result.kind = "error"

\* the case of C11: the AWS operation of a tool raised, and the tool returned
\* its error text with the message
C11_Witness ==
    /\ pc = "done"
    /\ call.tool = "analyze_log_group"
    /\ client /= NoClient
    /\ aws_response.raised = ApiError
    /\ result.kind = "error"
    /\ result.text = "Error analyzing log group '/aws/lambda/fn': ThrottlingException: Rate exceeded"

(***************************************************************************)
(* Properties of analyze_log_group.                                        *)
(***************************************************************************)
Analyzed ==
    call.tool = "analyze_log_group" /\ pc = "done" /\ result.text = "Log Group Analysis"

\* C6: for a window that is not empty the verdict follows from the counts:
\* critical when error_count > 0; elevated when error_count = 0 and
\* warning_count is more than a tenth of the total; healthy otherwise.
C6_VerdictFromCounts ==
    Analyzed =>
        /\ result.total_events > 0
        /\ result.error_count > 0 => result.verdict = Critical
        /\ (result.error_count = 0 /\ 10 * result.warning_count > result.total_events)
              => result.verdict = Elevated
        /\ (result.error_count = 0 /\ 10 * result.warning_count <= result.total_events)
              => result.verdict = Healthy

\* the case of C6 at the threshold: the warnings are exactly a tenth
C6_Witness ==
    /\ Analyzed
    /\ result.error_count = 0
    /\ result.warning_count > 0
    /\ 10 * result.warning_count = result.total_events
    /\ result.verdict = Healthy

\* the messages that hold an error keyword, a warning keyword, in any case
WithErrorKeyword ==
    {m \in 1..Len(Messages) : \E k \in error_keywords : Contains(k, Lower(Messages[m]))}
WithWarningKeyword ==
    {m \in 1..Len(Messages) : \E k \in warning_keywords : Contains(k, Lower(Messages[m]))}

\* C7: every message is counted in at most one category: error_count is the
\* number of events read that hold an error keyword, warning_count the number
\* of those that hold a warning keyword and no error keyword.
C7_CountedOnce ==
    (call.tool = "analyze_log_group" /\ pc = "analyze_scan") =>
        /\ error_count = Occurrences(log_events, WithErrorKeyword)
        /\ warning_count = Occurrences(log_events, WithWarningKeyword \ WithErrorKeyword)
        /\ error_count + warning_count <= total_events - pending

\* the case of C7: the events read hold a message with keywords of both kinds
C7_Witness ==
    /\ call.tool = "analyze_log_group"
    /\ pc = "analyze_scan"
    /\ pending = 0
    /\ \E m \in WithErrorKeyword \cap WithWarningKeyword : log_events[m] > 0
    /\ warning_count > 0

\* C21: for every window that is not empty the analysis reports the number of
\* events fetched as the total, and with each count its share of the total in
\* per cent to one decimal place; 100 events with 5 error matches and 2
\* warning matches give the line "Errors: 5 (5.0%)" and the verdict to
\* investigate immediately.
C21_RatesToOneDecimal ==
    LET \* count/total*100 to one decimal place: the numbers of tenths that are
        \* no further from the quotient than half a tenth
        ToOneDecimal(count, total) ==
            {OneDecimal(r) : r \in {x \in 0..1000 :
                /\ 2 * (x * total - 1000 * count) <= total
                /\ 2 * (1000 * count - x * total) <= total}}
    IN
    Analyzed =>
        /\ result.total_events = aws_response.events
        /\ result.total_events > 0
        /\ result.total_line = "  Total Events: " \o ToString(aws_response.events)
        /\ \E rate \in ToOneDecimal(result.error_count, result.total_events) :
              result.errors_line =
                  "  Errors: " \o ToString(result.error_count) \o " (" \o rate \o "%)"
        /\ \E rate \in ToOneDecimal(result.warning_count, result.total_events) :
              result.warnings_line =
                  "  Warnings: " \o ToString(result.warning_count) \o " (" \o rate \o "%)"
        /\ (result.total_events = 100 /\ result.error_count = 5
               /\ result.warning_count = 2)
              => /\ result.errors_line = "  Errors: 5 (5.0%)"
                 /\ result.warnings_line = "  Warnings: 2 (2.0%)"
                 /\ result.verdict = "[!]  High error rate detected! Investigate immediately."

\* the case of C21: the window of 100 events with 5 error matches and 2
\* warning matches was analyzed
C21_Witness ==
    /\ Analyzed
    /\ log_events = LargeWindow
    /\ result.total_events = 100
    /\ result.errors_line = "  Errors: 5 (5.0%)"
    /\ result.verdict = Critical

(***************************************************************************)
(* Properties of agent_handler.                                            *)
(***************************************************************************)
\* the texts that are a JSON object with an "error" field
ErrorObjects ==
    {JsonDumpsError("No 'prompt' field found in payload")}
    \cup {JsonDumpsError("Error processing request: " \o Exceptions[e]) :
            e \in DOMAIN Exceptions}

\* the turns request r put into some transcript
TurnsOf(r) ==
    {<<k, t, i>> \in Reqs \X ThreadIds \X (1..(MaxRequests * (2 * RecursionLimit + 2))) :
        i <= Len(storage[k][t]) /\ storage[k][t][i].request = r}

\* C8: a request whose prompt is missing or empty returns exactly the text
\* {"error": "No 'prompt' field found in payload"}; it does not call
\* initialize_agent, the model or a tool, and puts nothing into a transcript.
C8_EmptyPromptRejected ==
    \A r \in Reqs :
        (req[r].pc \notin {"idle", "prompt"} /\ req[r].payload.prompt \in {Absent, ""})
            => /\ req[r].pc = "done"
               /\ req[r].response = "{\"error\": \"No 'prompt' field found in payload\"}"
               /\ ~req[r].called_initialize
               /\ ~req[r].called_model
               /\ ~req[r].called_tool
               /\ TurnsOf(r) = {}

\* the case of C8: an empty prompt was answered while another request's
\* turns are in a transcript
C8_Witness ==
    \E r \in Reqs :
        /\ req[r].pc = "done"
        /\ req[r].payload.prompt = ""
        /\ \E k \in Reqs, t \in ThreadIds : storage[k][t] /= <<>>

\* C9: no exception leaves agent_handler: it returns a text, which after a
\* failure of the initialization, of the model or of the invocation is a JSON
\* object with an "error" field.
C9_NoExceptionEscapes ==
    \A r \in Reqs :
        /\ req[r].raised = ""
        /\ req[r].pc = "done" => req[r].response /= None
        /\ (req[r].pc = "done" /\ (req[r].caught /= "" \/ req[r].response /= Answer))
              => req[r].response \in ErrorObjects

\* the case of C9: the model failed and the handler returned the error object
C9_Witness ==
    \E r \in Reqs :
        /\ req[r].pc = "done"
        /\ req[r].caught = "ModelError"
        /\ req[r].response \in ErrorObjects

\* C10: when the model asks for tool calls until the iteration cap is hit,
\* the handler returns an answer text, not an error object.
C10_CapGivesAnswer ==
    \A r \in Reqs :
        (req[r].pc = "done" /\ req[r].caught = "GraphRecursionError")
            => req[r].response \notin ErrorObjects

(***************************************************************************)
(* Properties of the threads of the memory store.                          *)
(***************************************************************************)
\* the turns of a transcript are all turns of requests of thread t
TurnsOfThread(transcript, t) ==
    \A i \in 1..Len(transcript) : ThreadId(req[transcript[i].request].payload) = t

\* C13: for every interleaving of requests of different threads (a request
\* with a session_id and one on the default thread), a request reads and
\* writes the history of its own thread only: the
\* transcript each request works on and the transcript saved for each thread
\* hold no turn of a request of another thread.
C13_ThreadsIsolated ==
    /\ \A k \in Reqs, t \in ThreadIds : TurnsOfThread(storage[k][t], t)
    /\ \A r \in Reqs :
          req[r].pc = "model" =>
              /\ req[r].thread_id = ThreadId(req[r].payload)
              /\ TurnsOfThread(req[r].messages, req[r].thread_id)

\* the case of C13: two requests of different threads are in flight on the
\* same agent, each after a tool round
C13_Witness ==
    \E r1, r2 \in Reqs :
        /\ req[r1].pc = "model" /\ req[r2].pc = "model"
        /\ req[r1].agent = req[r2].agent
        /\ req[r1].thread_id /= req[r2].thread_id
        /\ req[r1].steps > 0 /\ req[r2].steps > 0

\* the requests that are inside monitoring_agent.invoke
InFlight == {r \in Reqs : req[r].pc = "model"}

\* the turns of each request stand together in the transcript
WholeTurns(transcript) ==
    \A i, j, l \in 1..Len(transcript) :
        (i < j /\ j < l /\ transcript[i].request = transcript[l].request)
            => transcript[j].request = transcript[i].request

\* C14: requests with the same session_id are serialized: at most one request
\* per thread is inside the agent invocation at any time, and the transcript
\* of a thread is a concatenation of whole turns.
C14_OneTurnInFlightPerThread ==
    /\ \A r1, r2 \in InFlight :
          (req[r1].agent = req[r2].agent /\ req[r1].thread_id = req[r2].thread_id)
              => r1 = r2
    /\ \A k \in Reqs, t \in ThreadIds : WholeTurns(storage[k][t])

\* the requests whose user turn was accepted: the agent invocation saved it
Accepted == {r \in Reqs : req[r].pc = "model" \/ req[r].called_model}

\* the history the process holds for thread t: what the module's agent loads
\* for the next request of the thread
History(t) ==
    IF monitoring_agent = NoAgent THEN <<>> ELSE storage[monitoring_agent][t]

\* where the user turn of request r stands in a transcript
UserTurnAt(transcript, r) ==
    {i \in 1..Len(transcript) : transcript[i] = Turn(r, "user", 0)}

\* C15: the history of a thread holds every user turn that was accepted for
\* the thread, in the order the requests arrived.
C15_HistoryKeepsAcceptedTurns ==
    /\ \A r \in Accepted : UserTurnAt(History(ThreadId(req[r].payload)), r) /= {}
    /\ \A r1, r2 \in Accepted :
          (r1 < r2 /\ ThreadId(req[r1].payload) = ThreadId(req[r2].payload))
              => \A i \in UserTurnAt(History(ThreadId(req[r1].payload)), r1),
                    j \in UserTurnAt(History(ThreadId(req[r2].payload)), r2) : i < j

\* C28: at most one memory store and one agent are created in a process,
\* whatever the interleaving of the first requests, and the agent a request
\* has used stays the module's agent: every request inside an invocation
\* holds it, and every saved transcript is in its memory store.
C28_InitializedOnce ==
    /\ checkpointers <= 1
    /\ \A r \in Reqs : req[r].agent /= NoAgent => req[r].agent = monitoring_agent
    /\ \A k \in Reqs, t \in ThreadIds :
          storage[k][t] /= <<>> => k = monitoring_agent

\* C29: _initialized is True only when monitoring_agent is set.  A request
\* whose initialization fails changes neither of the two and returns an
\* error object; while no initialization has completed they are False and
\* None; and a request that calls initialize_agent while _initialized is
\* False runs the body again.
C29_FlagImpliesAgent ==
    [][/\ _initialized => monitoring_agent /= NoAgent
       /\ _initialized' => monitoring_agent' /= NoAgent
       /\ checkpointers' = 0 => (~_initialized' /\ monitoring_agent' = NoAgent)
       /\ \A r \in Reqs :
             /\ (req[r].pc = "load" /\ req'[r].pc = "done") =>
                   /\ UNCHANGED <<_initialized, monitoring_agent>>
                   /\ req'[r].caught \in {"FileNotFoundError", "KeyError", "NoRegionError"}
                   /\ req'[r].response \in ErrorObjects
             /\ (req[r].pc = "initialize" /\ req'[r].pc /= "initialize") =>
                   req'[r].pc = IF _initialized THEN "invoke" ELSE "load"
      ]_vars

\* the case of C29: the initialization of the first request failed and left
\* the flag False and the agent None, and the second request is in the body
\* of initialize_agent
C29_Witness ==
    /\ req[1].pc = "done"
    /\ req[1].caught = "KeyError"
    /\ req[1].response = "{\"error\": \"Error processing request: 'system_prompt_fpath'\"}"
    /\ ~_initialized
    /\ monitoring_agent = NoAgent
    /\ req[2].pc = "create"

\* the thread the claim names for a payload
SessionOrDefault(payload) ==
    IF payload.session_id = Absent THEN "default-session" ELSE payload.session_id

\* C16: a request with a prompt that is not empty invokes the agent on the
\* thread of its session_id when the payload has that key, and on the thread
\* "default-session" when it has not; its turns are saved under that thread
\* and no other.
C16_ThreadIdFromSession ==
    \A r \in Reqs :
        /\ req[r].pc = "model" =>
              /\ req[r].payload.prompt \notin {Absent, ""}
              /\ req[r].thread_id = SessionOrDefault(req[r].payload)
        /\ \A k \in Reqs, t \in ThreadIds :
              (\E i \in 1..Len(storage[k][t]) : storage[k][t][i].request = r)
                  => t = SessionOrDefault(req[r].payload)

\* the case of C16: two requests without session_id have their turns in the
\* one thread "default-session"
C16_Witness ==
    \E r1, r2 \in Reqs, k \in Reqs :
        /\ r1 /= r2
        /\ req[r1].payload.session_id = Absent
        /\ req[r2].payload.session_id = Absent
        /\ UserTurnAt(storage[k]["default-session"], r1) /= {}
        /\ UserTurnAt(storage[k]["default-session"], r2) /= {}

(***************************************************************************)
(* Properties of the region resolution.                                    *)
(***************************************************************************)
\* the first of the sources that is given and not empty
RECURSIVE FirstGiven(_)
FirstGiven(sources) ==
    IF sources = <<>> THEN "us-east-1"
    ELSE IF Head(sources) \notin {None, Absent, "", SessionRaises} THEN Head(sources)
    ELSE FirstGiven(Tail(sources))

AlarmsAnswered ==
    /\ call.tool = "get_cloudwatch_alarms_for_service"
    /\ pc = "done"
    /\ result.kind = "text"

\* the name of the alarm, or its namespace when it has one, contains the
\* service name, all of them taken in lower case
NameOrNamespaceContains ==
    [s \in AlarmServiceNames |-> [a \in 1..Len(AlarmPool) |->
        \/ Contains(Lower(s), Lower(AlarmPool[a].AlarmName))
        \/ /\ "Namespace" \in DOMAIN AlarmPool[a]
           /\ Contains(Lower(s), Lower(AlarmPool[a].Namespace))]]

\* the entries of the answer that the summary is to hold
Matching(service_name, all_alarms) ==
    LET Test(alarm) == NameOrNamespaceContains[service_name][alarm.alarm]
    IN  SelectSeq(all_alarms, Test)

\* C18: the summary holds an alarm of the answer if and only if the alarm's
\* name or namespace contains the service name, compared without regard to
\* case; an alarm without Namespace is matched on its name and is no error.
C18_IncludedIffNameOrNamespace ==
    AlarmsAnswered =>
        LET matching == Matching(call.service_name, aws_response.alarms)
        IN  /\ Len(result.details) = Len(matching)
            /\ \A i \in 1..Len(matching) :
                  /\ result.details[i].name = Join(AlarmPool[matching[i].alarm].AlarmName)
                  /\ result.details[i].state = matching[i].StateValue
            /\ (result.text = "No CloudWatch alarms found for service") = (matching = <<>>)

\* the case of C18: of two alarms without Namespace, the one whose name holds
\* the service name in another case is in the summary and the other is not
C18_Witness ==
    /\ AlarmsAnswered
    /\ Len(aws_response.alarms) = 2
    /\ aws_response.alarms[1].alarm = 3
    /\ aws_response.alarms[2].alarm = 5
    /\ Len(result.details) = 1
    /\ result.details[1].name = "sEc2-disk"

\* how many alarms of the summary are in a state
InState(state) ==
    Cardinality({i \in 1..Len(result.details) : result.details[i].state = state})

\* C19: each alarm of the summary is counted under exactly one of OK, ALARM
\* and INSUFFICIENT_DATA, by its state string: each count is the number of
\* alarms of the summary in exactly that state, and the counts add up to the
\* total.
C19_CountsByExactState ==
    (AlarmsAnswered /\ result.details /= <<>>) =>
        /\ result.alarm_ok = InState("OK")
        /\ result.in_alarm = InState("ALARM")
        /\ result.insufficient_data = InState("INSUFFICIENT_DATA")
        /\ result.alarm_ok + result.in_alarm + result.insufficient_data = result.total

(***************************************************************************)
(* Properties of the scheduled trigger.                                    *)
(***************************************************************************)
\* C22: no message posted to the webhook, the report or the error
\* notification, has a section text longer than 3000 characters.
C22_SectionsWithinBlockLimit ==
    \A i \in 1..Len(lambda_sent) :
        lambda_sent[i].to = "slack_webhook_url" =>
            \A j \in 1..Len(lambda_sent[i].sections) :
                lambda_sent[i].sections[j] <= 3000

\* an environment variable of the run is set to a non-empty value
LambdaSet(key) == lambda_environ[key] \notin {Absent, ""}

\* the flow the claim names for the environment of the run
ClaimedFlow ==
    IF LambdaSet("M2M_CLIENT_ID") /\ LambdaSet("M2M_CLIENT_SECRET")
       /\ LambdaSet("COGNITO_DOMAIN_URL")
    THEN "client_credentials"
    ELSE IF LambdaSet("COGNITO_USERNAME") /\ LambdaSet("COGNITO_PASSWORD")
            /\ LambdaSet("COGNITO_CLIENT_ID")
    THEN "USER_PASSWORD_AUTH"
    ELSE "none"

\* the fixed order of the requests of a run: the token request of the
\* claimed flow is the first request, the agent is called second, with the
\* token of that flow, only after the token request succeeded, and the
\* report is posted third, only after the agent answered 200
LambdaInOrder ==
    \A i \in 1..Len(lambda_sent) :
        LET sent == lambda_sent[i]
            IsTokenRequest(m) ==
                /\ ClaimedFlow /= "none"
                /\ m.carries = ClaimedFlow
                /\ m.to = IF ClaimedFlow = "client_credentials"
                          THEN "token_url" ELSE "cognito-idp"
        IN  /\ sent.to \in {"token_url", "cognito-idp"} =>
                  i = 1 /\ IsTokenRequest(sent)
            /\ (i = 1 /\ ClaimedFlow /= "none") => IsTokenRequest(sent)
            /\ sent.to = "agentcore_url" =>
                  /\ i = 2
                  /\ IsTokenRequest(lambda_sent[1])
                  /\ lambda_sent[1].status /= Raised
                  /\ ClaimedFlow = "client_credentials" => lambda_sent[1].status = 200
                  /\ sent.carries = IF ClaimedFlow = "client_credentials"
                                    THEN "access_token" ELSE "IdToken"
            /\ sent.carries = "report" =>
                  /\ i = 3
                  /\ sent.to = "slack_webhook_url"
                  /\ lambda_sent[2].to = "agentcore_url"
                  /\ lambda_sent[2].status = 200
            /\ sent.carries = "error" =>
                  /\ i = Len(lambda_sent)
                  /\ sent.to = "slack_webhook_url"

\* the error notifications the run posted
ErrorNotifications ==
    Cardinality({i \in 1..Len(lambda_sent) : lambda_sent[i].carries = "error"})

\* the run returned without both URLs: status 500 and no request at all
ReturnedWithoutUrls ==
    (/\ lambda_pc = "returned"
     /\ ~(LambdaSet("AGENTCORE_RUNTIME_URL") /\ LambdaSet("SLACK_WEBHOOK_URL"))) =>
        /\ lambda_return = 500
        /\ lambda_sent = <<>>

\* the run returned 200 only after the report post was answered 200
Returned200OnlyAfterReport ==
    (lambda_pc = "returned" /\ lambda_return = 200) =>
        /\ Len(lambda_sent) = 3
        /\ lambda_sent[3].carries = "report"
        /\ lambda_sent[3].status = 200

\* C30 as the claim has it: the requests are in the fixed order, a run
\* without both URLs returns 500 without a request, a run returns 200 only if
\* the report post returned 200, and every other run with both URLs has
\* posted exactly one error notification and returns 500.
C30_EveryFailureNotified ==
    /\ LambdaInOrder
    /\ ReturnedWithoutUrls
    /\ Returned200OnlyAfterReport
    /\ lambda_pc = "returned" => lambda_return \in {200, 500}
    /\ (/\ lambda_pc = "returned"
        /\ LambdaSet("AGENTCORE_RUNTIME_URL") /\ LambdaSet("SLACK_WEBHOOK_URL")
        /\ lambda_return /= 200) =>
           ErrorNotifications = 1

\* C30: the requests are in the fixed order, a run without both URLs returns
\* 500 without a request, a run returns 200 only if the report post returned
\* 200, and a run with both URLs that does not return 200 returns 500 after
\* exactly one error notification when an exception was caught (no
\* credentials, a failed token request, an agent answer other than 200, a
\* request that raised), and after none when the report post was answered
\* with a status other than 200.
C30_FixedOrderAndExceptionsNotified ==
    /\ LambdaInOrder
    /\ ReturnedWithoutUrls
    /\ Returned200OnlyAfterReport
    /\ lambda_pc = "returned" => lambda_return \in {200, 500}
    /\ (/\ lambda_pc = "returned"
        /\ LambdaSet("AGENTCORE_RUNTIME_URL") /\ LambdaSet("SLACK_WEBHOOK_URL")) =>
           LET ReportAnswered ==
                   \E i \in 1..Len(lambda_sent) :
                       /\ lambda_sent[i].carries = "report"
                       /\ lambda_sent[i].status /= Raised
           IN  /\ ErrorNotifications = IF ReportAnswered THEN 0 ELSE 1
               /\ ~ReportAnswered => lambda_return = 500
               /\ ReportAnswered =>
                     lambda_return = IF lambda_sent[3].status = 200 THEN 200 ELSE 500

\* the case of C30: both kinds of credentials are set, the token came from
\* the client-credentials flow, the agent answered 200, and the webhook
\* answered the report with 503: the run returned 500 and posted no error
\* notification
C30_Witness ==
    /\ lambda_pc = "returned"
    /\ ClaimedFlow = "client_credentials"
    /\ LambdaSet("COGNITO_USERNAME") /\ LambdaSet("COGNITO_PASSWORD")
    /\ LambdaSet("COGNITO_CLIENT_ID")
    /\ Len(lambda_sent) = 3
    /\ lambda_sent[1].to = "token_url"
    /\ lambda_sent[2].carries = "access_token"
    /\ lambda_sent[3].carries = "report"
    /\ lambda_sent[3].status = 503
    /\ lambda_return = 500

(***************************************************************************)
(* Properties of successive setup_cross_account_access calls.              *)
(***************************************************************************)
\* the running call has returned, and it and the call before it were
\* setup_cross_account_access with the same account_id and role_name, both
\* given, and both reported success
VerifiedTwice ==
    /\ pc = "done"
    /\ call.tool = "setup_cross_account_access"
    /\ BothOfPair(call)
    /\ previous_call.call = call
    /\ previous_call.result.kind = "text"
    /\ result.kind = "text"

====
